---------------------------- MODULE Spec2Model ----------------------------
(***************************************************************************)
(* A model of the safety-and-lifecycle layer of the coding agent:          *)
(*   - WorkspaceEditor / ApprovalTracker (coding_agent/coding_agent.py and *)
(*     the ungated WorkspaceEditor of coding_agent/tools/apply_patch.py);  *)
(*   - ShellExecutor._monitor_process (coding_agent/tools/shell.py).       *)
(* Text is modelled as sequences of one-character strings; NUL stands for  *)
(* the byte 0.  Filesystem paths are sequences of component names from "/". *)
(***************************************************************************)
EXTENDS Naturals, Integers, Sequences, FiniteSets, TLC

(***************************************************************************)
(* Bounds of the model.                                                    *)
(***************************************************************************)
MaxOps == 2        \* editor calls started per behaviour
MaxFpLen == 2      \* longest path / diff text drawn for the fingerprint comparison
MaxTime == 2       \* the clock stops after this many ticks
MaxChunks == 1     \* chunks of output a process writes
MaxRewrites == 2   \* times _prepare_command is applied to its own result
MaxBatch == 2      \* commands of one request

NUL == "NUL"

(***************************************************************************)
(* Text helpers.                                                           *)
(***************************************************************************)
RECURSIVE Join(_, _)
Join(comps, sep) ==
    IF comps = <<>> THEN <<>>
    ELSE IF Len(comps) = 1 THEN <<Head(comps)>>
    ELSE <<Head(comps), sep>> \o Join(Tail(comps), sep)

\* the lower-case letter of each upper-case letter
LowerOf ==
    LET UpperCase ==
            <<"A", "B", "C", "D", "E", "F", "G", "H", "I", "J", "K", "L", "M",
              "N", "O", "P", "Q", "R", "S", "T", "U", "V", "W", "X", "Y", "Z">>
        LowerCase ==
            <<"a", "b", "c", "d", "e", "f", "g", "h", "i", "j", "k", "l", "m",
              "n", "o", "p", "q", "r", "s", "t", "u", "v", "w", "x", "y", "z">>
    IN  [ch \in {UpperCase[i] : i \in DOMAIN UpperCase} |->
            LowerCase[CHOOSE i \in DOMAIN UpperCase : UpperCase[i] = ch]]

LowerChar(ch) == IF ch \in DOMAIN LowerOf THEN LowerOf[ch] ELSE ch

\* str.lower()
Lower(s) == [i \in 1..Len(s) |-> LowerChar(s[i])]

IsSpace(ch) == ch \in {" ", "\t"}

RECURSIVE LStrip(_)
LStrip(s) == IF s # <<>> /\ IsSpace(Head(s)) THEN LStrip(Tail(s)) ELSE s

RECURSIVE RStrip(_)
RStrip(s) ==
    IF s # <<>> /\ IsSpace(s[Len(s)]) THEN RStrip(SubSeq(s, 1, Len(s) - 1)) ELSE s

\* str.strip()
Strip(s) == RStrip(LStrip(s))

\* s.endswith(t)
EndsWith(s, t) == Len(t) <= Len(s) /\ SubSeq(s, Len(s) - Len(t) + 1, Len(s)) = t

\* the positions at which t occurs in s
Occurrences(s, t) ==
    { i \in 1..(Len(s) - Len(t) + 1) : SubSeq(s, i, i + Len(t) - 1) = t }

\* t in s
Contains(s, t) == Occurrences(s, t) # {}

\* s.find(t), for a t that occurs in s
Find(s, t) == CHOOSE i \in Occurrences(s, t) : \A j \in Occurrences(s, t) : i <= j

\* s.replace(t, u, 1)
ReplaceFirst(s, t, u) ==
    IF ~Contains(s, t) THEN s
    ELSE LET i == Find(s, t)
         IN  SubSeq(s, 1, i - 1) \o u \o SubSeq(s, i + Len(t), Len(s))

\* s.split(t): the pieces between the non-overlapping occurrences of t, taken
\* from the left
RECURSIVE Split(_, _)
Split(s, t) ==
    IF ~Contains(s, t) THEN <<s>>
    ELSE LET i == Find(s, t)
         IN  <<SubSeq(s, 1, i - 1)>> \o Split(SubSeq(s, i + Len(t), Len(s)), t)

\* t.join(pieces)
RECURSIVE JoinText(_, _)
JoinText(pieces, t) ==
    IF pieces = <<>> THEN <<>>
    ELSE IF Len(pieces) = 1 THEN pieces[1]
    ELSE pieces[1] \o t \o JoinText(Tail(pieces), t)

(***************************************************************************)
(* re.search for the patterns of shell.py.  A pattern is a sequence of      *)
(* elements: a literal text, \b, \s+, [^ ]*, [^ ]+, .*, .+, an optional      *)
(* literal, or an alternation of literals.                                  *)
(***************************************************************************)
\* [a-zA-Z0-9_]
WordChars ==
    (DOMAIN LowerOf) \cup {LowerOf[ch] : ch \in DOMAIN LowerOf}
        \cup {"0", "1", "2", "3", "4", "5", "6", "7", "8", "9", "_"}

\* \w
WordChar(ch) == ch \in WordChars

\* \b before position i of s
AtWordEdge(s, i) ==
    LET before == i > 1 /\ WordChar(s[i - 1])
        after == i <= Len(s) /\ WordChar(s[i])
    IN  before # after

\* the rest of the pattern matches s from position i on
RECURSIVE MatchAt(_, _, _)
MatchAt(s, i, pat) ==
    IF pat = <<>> THEN TRUE
    ELSE LET e == Head(pat)
             rest == Tail(pat)
             left == Len(s) - i + 1
             Run(lo, Ok(_)) ==
                 \E n \in lo..left :
                     /\ \A k \in i..(i + n - 1) : Ok(s[k])
                     /\ MatchAt(s, i + n, rest)
             LitAt(t) == i + Len(t) - 1 <= Len(s) /\ SubSeq(s, i, i + Len(t) - 1) = t
             NonSpace(ch) == ch # " "
             NotNewline(ch) == ch # "\n"
         IN  CASE e.t = "lit" -> LitAt(e.s) /\ MatchAt(s, i + Len(e.s), rest)
               [] e.t = "b" -> AtWordEdge(s, i) /\ MatchAt(s, i, rest)
               [] e.t = "ws+" -> Run(1, IsSpace)
               [] e.t = "nonsp*" -> Run(0, NonSpace)
               [] e.t = "nonsp+" -> Run(1, NonSpace)
               [] e.t = "any*" -> Run(0, NotNewline)
               [] e.t = "any+" -> Run(1, NotNewline)
               [] e.t = "opt" ->
                    \/ LitAt(e.s) /\ MatchAt(s, i + Len(e.s), rest)
                    \/ MatchAt(s, i, rest)
               [] e.t = "alt" ->
                    \E j \in DOMAIN e.s :
                        LitAt(e.s[j]) /\ MatchAt(s, i + Len(e.s[j]), rest)

\* any(re.search(pattern, s) for pattern in patterns)
SearchAny(patterns, s) ==
    \E j \in DOMAIN patterns : \E i \in 1..(Len(s) + 1) : MatchAt(s, i, patterns[j])

(***************************************************************************)
(* The filesystem: a function from the canonical paths that exist to       *)
(* nodes [k, c]: a directory, a regular file with content c, or a symbolic  *)
(* link with (absolute) target c.                                          *)
(***************************************************************************)
Dir == [k |-> "dir", c |-> <<>>]
File(content) == [k |-> "file", c |-> content]
Link(to) == [k |-> "link", c |-> to]

\* workspace_path = Path("./mnt").resolve(): the workspace root
Root == <<"w">>

Parent(p) == IF p = <<>> THEN <<>> ELSE SubSeq(p, 1, Len(p) - 1)
Prefix(p, n) == SubSeq(p, 1, n)

Exists(f, p) == p \in DOMAIN f
IsDir(f, p) == Exists(f, p) /\ f[p].k = "dir"
IsFile(f, p) == Exists(f, p) /\ f[p].k = "file"
IsLink(f, p) == Exists(f, p) /\ f[p].k = "link"

\* ENOTDIR: a proper ancestor of p is a regular file
AncestorIsFile(f, p) == \E n \in 1..(Len(p) - 1) : IsFile(f, Prefix(p, n))

\* os.path.realpath (non-strict): ".." pops the resolved path, a component
\* that is a symbolic link is replaced by its resolved target, a component
\* that does not exist is kept as written.
RECURSIVE Realpath(_, _, _)
Realpath(f, cur, comps) ==
    IF comps = <<>> THEN cur
    ELSE LET c == Head(comps)
             rest == Tail(comps)
             new == Append(cur, c)
         IN  IF c = ".." THEN Realpath(f, Parent(cur), rest)
             ELSE IF c = "." THEN Realpath(f, cur, rest)
             ELSE IF IsLink(f, new)
                  THEN Realpath(f, Realpath(f, <<>>, f[new].c), rest)
                  ELSE Realpath(f, new, rest)

\* target.relative_to(self._root) does not raise
ConfinedToParent(p) ==
    Len(p) >= Len(Parent(Root)) /\ Prefix(p, Len(Parent(Root))) = Parent(Root)
Confined(p) == Len(p) >= Len(Root) /\ Prefix(p, Len(Root)) = Root

\* resolved.relative_to(self._root).as_posix()
AsPosix(p) ==
    LET rel == SubSeq(p, Len(Root) + 1, Len(p))
    IN  IF rel = <<>> THEN <<".">> ELSE Join(rel, "/")

\* candidate if absolute else root / candidate, then .resolve()
ResolveTarget(f, path) ==
    Realpath(f, IF path.abs THEN <<>> ELSE Root, path.comps)

\* Path.mkdir(parents=True, exist_ok=True): what it raises, if anything
MkdirError(f, p) ==
    IF AncestorIsFile(f, p) THEN "NotADirectoryError"
    ELSE IF Exists(f, p) /\ ~IsDir(f, p) THEN "FileExistsError"
    ELSE "none"

\* ... and the filesystem it leaves when it does not raise
MkdirParents(f, p) ==
    LET missing == {Prefix(p, n) : n \in 0..Len(p)} \ DOMAIN f
    IN  [q \in DOMAIN f \cup missing |-> IF q \in missing THEN Dir ELSE f[q]]

\* open(target) for reading or writing: what it raises, if anything
OpenError(f, p, writing) ==
    IF AncestorIsFile(f, p) THEN "NotADirectoryError"
    ELSE IF IsDir(f, p) THEN "IsADirectoryError"
    ELSE IF ~Exists(f, p) /\ (~writing \/ ~IsDir(f, Parent(p)))
         THEN "FileNotFoundError"
    ELSE "none"

\* Path.write_text
WriteText(f, p, content) ==
    [q \in DOMAIN f \cup {p} |-> IF q = p THEN File(content) ELSE f[q]]

\* Path.unlink(missing_ok=True): what it raises, if anything
UnlinkError(f, p) ==
    IF AncestorIsFile(f, p) THEN "NotADirectoryError"
    ELSE IF IsDir(f, p) THEN "IsADirectoryError"
    ELSE "none"

Unlink(f, p) == [q \in DOMAIN f \ {p} |-> f[q]]

(***************************************************************************)
(* apply_diff(original, diff, mode): the external diff collaborator.       *)
(* Diffs of the model: "" (no change), "+x" (add x to empty content) and    *)
(* "-x+y" (replace content x by y); a diff that does not apply cleanly, or  *)
(* is not a pure addition in "create" mode, raises.                        *)
(***************************************************************************)
DiffApplies(original, diff, mode) ==
    \/ diff = <<>>
    \/ Len(diff) = 2 /\ diff[1] = "+" /\ original = <<>>
    \/ /\ Len(diff) = 4 /\ diff[1] = "-" /\ diff[3] = "+"
       /\ mode # "create" /\ original = <<diff[2]>>

ApplyDiff(original, diff) ==
    IF diff = <<>> THEN original
    ELSE IF Len(diff) = 2 THEN <<diff[2]>>
    ELSE <<diff[4]>>

(***************************************************************************)
(* ApprovalTracker.fingerprint: sha256 over type, NUL, path, NUL, diff.    *)
(* The digest is modelled by the byte string it is computed over.          *)
(***************************************************************************)
KindBytes(kind) ==
    CASE kind = "create_file" -> <<"c","r","e","a","t","e","_","f","i","l","e">>
      [] kind = "update_file" -> <<"u","p","d","a","t","e","_","f","i","l","e">>
      [] kind = "delete_file" -> <<"d","e","l","e","t","e","_","f","i","l","e">>

FingerprintNoSeparator(kind, relative_path, diff) ==
    KindBytes(kind) \o relative_path \o diff
Fingerprint(kind, relative_path, diff) ==
    KindBytes(kind) \o <<NUL>> \o relative_path \o <<NUL>> \o diff


(***************************************************************************)
(* State.                                                                  *)
(***************************************************************************)
VARIABLES
    editor,        \* which WorkspaceEditor class was instantiated
    settings,      \* the auto_approve argument and APPLY_PATCH_AUTO_APPROVE
    auto_approve,  \* WorkspaceEditor._auto_approve
    fs,            \* the filesystem
    approved,      \* ApprovalTracker._approved
    call,          \* per caller: position in the running editor method, its locals
    nOps,          \* editor calls started so far
    grantedTriples, \* history: the (kind, path, diff) triples the gate has granted
    failedGranted, \* history: granted triples whose call went on to fail
    tripleA,       \* fingerprint comparison: a (kind, path, diff) triple
    tripleB,       \* fingerprint comparison: another one
    digestA,       \* ApprovalTracker.fingerprint of tripleA, once computed
    digestB,       \* ApprovalTracker.fingerprint of tripleB, once computed
    config,        \* ShellExecutor: timeout, inactivity_timeout, background_on_timeout
    now,           \* time.monotonic(), in ticks of INACTIVITY_POLL_INTERVAL_SECONDS
    proc,          \* the spawned process and its asyncio transport
    descendant,    \* a descendant of the process holds its stdout/stderr open
    pipe,          \* per stream: the bytes written and not yet read by the pump
    written,       \* history, per stream: every byte the process wrote
    chunks,        \* stdout_chunks, stderr_chunks
    last_activity, \* _monitor_process.last_activity
    task,          \* per asyncio task of the call: none, pending, done, cancelled
    poll_at,       \* when the sleep of _watch_inactivity ends
    mon,           \* _monitor_process: position, flags, the result
    policy,        \* ShellExecutor: force_non_interactive, react_compiler_preference
    raw_command,   \* a command as the caller wrote it
    prepared,      \* the results of _prepare_command on it, applied again and again
    detected,      \* what _requires_background and _is_backgrounded say of it
    request,       \* action.commands of the request __call__ is serving
    batch          \* __call__: position, index of the command, outputs, history

evars == <<editor, settings, auto_approve, fs, approved, call, nOps, grantedTriples,
           failedGranted>>

fvars == <<tripleA, tripleB, digestA, digestB>>

svars == <<config, now, proc, descendant, pipe, written, chunks, last_activity,
           task, poll_at, mon>>

cvars == <<policy, raw_command, prepared, detected, request, batch>>

vars == <<evars, fvars, svars, cvars>>

Callers == {1, 2}

Path(abs, comps) == [abs |-> abs, comps |-> comps]

\* The workspace at start: /w is the workspace root; /s is a file outside it;
\* /w/l is a symbolic link out of the workspace, /w/i one that stays inside.
InitFS ==
    (<<>> :> Dir) @@ (<<"s">> :> File(<<"a">>)) @@ (<<"w">> :> Dir)
    @@ (<<"w", "f">> :> File(<<"a">>)) @@ (<<"w", "d">> :> Dir)
    @@ (<<"w", "l">> :> Link(<<>>)) @@ (<<"w", "i">> :> Link(<<"w", "d">>))

\* Caller-supplied paths: relative and absolute, with "..", through links.
EditorPaths ==
    { Path(FALSE, <<"f">>), Path(FALSE, <<"n", "m">>), Path(FALSE, <<"f", "x">>),
      Path(FALSE, <<"l", "s">>), Path(FALSE, <<"..", "s">>),
      Path(TRUE, <<"w", "d", "..", "f">>), Path(FALSE, <<"i", "n">>),
      Path(TRUE, <<"s">>), Path(FALSE, <<>>) }

EditorDiffs == { <<"+", "a">>, <<"-", "a", "+", "b">> }

\* ApplyPatchOperation: type, path, diff (operation.diff or "" for a delete)
Operation(kind, path, diff) == [kind |-> kind, path |-> path, diff |-> diff]

EditorOps ==
    { Operation(k, p, d) : k \in {"create_file", "update_file"},
                           p \in EditorPaths, d \in EditorDiffs }
    \cup { Operation("delete_file", p, <<>>) : p \in EditorPaths }

\* What the user may type at "Proceed? [y/N] "
Answers ==
    { <<"y">>, <<"Y", "E", "S">>, <<" ", "y">>, <<"n">>, <<"y", "o">>, <<>> }

NoOperation == Operation("none", Path(FALSE, <<>>), <<>>)

IdleCall ==
    [ pc |-> "idle", op |-> NoOperation, relative |-> <<>>, target |-> <<>>,
      content |-> <<>>, result |-> "none", answer |-> <<>>, granted |-> FALSE,
      prompted |-> FALSE, pre |-> [fs |-> <<>>, approved |-> {}] ]

OutsideWorkspace == "RuntimeError: Operation outside workspace"
Rejected == "RuntimeError: Apply patch operation rejected by user."
PatchFormatError == "apply_diff error"

Triple(c) == <<call[c].op.kind, call[c].relative, call[c].op.diff>>

\* self._auto_approve = auto_approve or os.environ.get(...) == "1"
AutoApprove(argument, environment) == argument \/ environment = "1"

\* The gated editor is built with auto_approve=True, as the module does for
\* the agent's tool (coding_agent.py line 154), or with auto_approve=False,
\* as another user of the class may; APPLY_PATCH_AUTO_APPROVE is unset or
\* holds a text.  The editor of tools/apply_patch.py takes neither.
EditorInit ==
    /\ editor \in {"coding_agent", "apply_patch"}
    /\ settings \in [auto_approve : BOOLEAN,
                      APPLY_PATCH_AUTO_APPROVE : {"unset", "0", "1"}]
    /\ editor = "apply_patch" =>
           settings = [auto_approve |-> FALSE, APPLY_PATCH_AUTO_APPROVE |-> "unset"]
    /\ auto_approve =
           IF editor = "apply_patch" THEN FALSE
           ELSE AutoApprove(settings.auto_approve, settings.APPLY_PATCH_AUTO_APPROVE)
    /\ fs = InitFS
    /\ approved = {}
    /\ call = [c \in Callers |-> IdleCall]
    /\ nOps = 0
    /\ grantedTriples = {}
    /\ failedGranted = {}

NoTriple == <<"none", <<>>, <<>>>>
NoDigest == <<"none">>

\* the fingerprint comparison is not running
FingerprintIdle ==
    /\ tripleA = NoTriple
    /\ tripleB = NoTriple
    /\ digestA = NoDigest
    /\ digestB = NoDigest

\* Python's None where a number is expected
None == 0 - 1

\* Process.returncode after SIGKILL
Killed == 0 - 9

Streams == {"stdout", "stderr"}

\* what a process writes, chunk after chunk: bytes of text, and bytes that
\* are no UTF-8
OutputBytes == <<"\\xff", "a", "\\xfe", "b">>

RaceTasks == {"wait_task", "timeout_task", "inactivity_task"}

Tasks == RaceTasks \cup {"stdout_task", "stderr_task", "reaper"}

NoResult ==
    [ stdout |-> <<>>, stderr |-> <<>>, exit_code |-> None, timed_out |-> FALSE,
      timeout_reason |-> "unset" ]

\* no command is being supervised
SupervisorIdle ==
    /\ config = [timeout |-> None, inactivity_timeout |-> None,
                 background_on_timeout |-> FALSE]
    /\ now = 0
    /\ proc = [alive |-> FALSE, blocked |-> "none", status |-> None,
               returncode |-> None, closed |-> FALSE, kills |-> 0]
    /\ descendant = FALSE
    /\ pipe = [s \in Streams |-> <<>>]
    /\ written = [s \in Streams |-> <<>>]
    /\ chunks = [s \in Streams |-> <<>>]
    /\ last_activity = 0
    /\ task = [t \in Tasks |-> "none"]
    /\ poll_at = 0
    /\ mon = [pc |-> "idle", timed_out |-> FALSE, inactivity_triggered |-> FALSE,
              background_detached |-> FALSE, done |-> {}, result |-> NoResult]

NoDetection == [requires_background |-> FALSE, is_backgrounded |-> FALSE,
                done |-> FALSE]

IdleBatch ==
    [ pc |-> "idle", configured |-> [default_timeout |-> None, env_timeout |-> <<>>],
      default_timeout |-> None, index |-> 0,
      prepared_command |-> <<>>, timeout |-> None, outputs |-> <<>>,
      spawned |-> <<>>, background |-> <<>> ]

\* no command is being rewritten and no request is being served
CommandsIdle ==
    /\ policy = [force_non_interactive |-> TRUE, react_compiler_preference |-> "no"]
    /\ raw_command = <<>>
    /\ prepared = <<>>
    /\ detected = NoDetection
    /\ request = <<>>
    /\ batch = IdleBatch

(***************************************************************************)
(* WorkspaceEditor.create_file / update_file / delete_file, step by step.  *)
(***************************************************************************)
\* the method raises: the call ends with the exception as its result
Raise(c, error) ==
    call' = [call EXCEPT ![c].pc = "done", ![c].result = error]

\* the tool call arrives
Call(c, o) ==
    /\ call[c].pc = "idle"
    /\ nOps < MaxOps
    /\ nOps' = nOps + 1
    /\ call' = [call EXCEPT ![c] = [IdleCall EXCEPT !.pc = "relative_path",
                    !.op = o, !.pre = [fs |-> fs, approved |-> approved]]]
    /\ UNCHANGED <<fvars, svars, cvars, editor, settings, auto_approve, fs, approved, grantedTriples,
                   failedGranted>>

\* a _relative_path that leaves the containment check to the later _resolve
RelativePathUnchecked(c) ==
    /\ call[c].pc = "relative_path"
    /\ call' = [call EXCEPT
           ![c].relative = AsPosix(ResolveTarget(fs, call[c].op.path)),
           ![c].pc = IF editor = "coding_agent"
                     THEN "require_approval" ELSE "resolve"]
    /\ UNCHANGED <<fvars, svars, cvars, editor, settings, auto_approve, fs, approved, nOps, grantedTriples,
                   failedGranted>>
\* relative = self._relative_path(operation.path)
RelativePath(c) ==
    /\ call[c].pc = "relative_path"
    /\ LET resolved == ResolveTarget(fs, call[c].op.path)
       IN  IF ~Confined(resolved)
           THEN Raise(c, OutsideWorkspace)
           ELSE call' = [call EXCEPT
                    ![c].relative = AsPosix(resolved),
                    ![c].pc = IF editor = "coding_agent"
                              THEN "require_approval" ELSE "resolve"]
    /\ UNCHANGED <<fvars, svars, cvars, editor, settings, auto_approve, fs, approved, nOps, grantedTriples,
                   failedGranted>>

\* a tracker that keeps the last fingerprint only
RememberLastOnly(c) ==
    approved' = {Fingerprint(call[c].op.kind, call[c].relative, call[c].op.diff)}
\* self._approvals.remember(fingerprint)
Remember(c) ==
    approved' = approved \cup
        {Fingerprint(call[c].op.kind, call[c].relative, call[c].op.diff)}

\* history: the gate grants the operation of caller c
Grant(c) == grantedTriples' = grantedTriples \cup {Triple(c)}

\* _require_approval up to the prompt
RequireApproval(c) ==
    /\ call[c].pc = "require_approval"
    /\ LET fingerprint ==
               Fingerprint(call[c].op.kind, call[c].relative, call[c].op.diff)
       IN  IF auto_approve \/ fingerprint \in approved
           THEN /\ Remember(c)
                /\ Grant(c)
                /\ call' = [call EXCEPT ![c].pc = "resolve", ![c].granted = TRUE]
           ELSE /\ call' = [call EXCEPT ![c].pc = "input", ![c].prompted = TRUE]
                /\ UNCHANGED <<approved, grantedTriples>>
    /\ UNCHANGED <<fvars, svars, cvars, editor, settings, auto_approve, fs, nOps, failedGranted>>

\* input(...).strip().lower() in {"y", "yes"}
Accepts(answer) == Lower(Strip(answer)) \in { <<"y">>, <<"y", "e", "s">> }

\* answer = input("Proceed? [y/N] ") and the rest of _require_approval
InputRemembersFirst(c, answer) ==
    /\ call[c].pc = "input"
    /\ Remember(c)
    /\ IF ~Accepts(answer)
       THEN /\ call' = [call EXCEPT ![c].pc = "done", ![c].result = Rejected,
                                    ![c].answer = answer]
            /\ UNCHANGED grantedTriples
       ELSE /\ Grant(c)
            /\ call' = [call EXCEPT ![c].pc = "resolve", ![c].granted = TRUE,
                                    ![c].answer = answer]
    /\ UNCHANGED <<fvars, svars, cvars, editor, settings, auto_approve, fs, nOps, failedGranted>>
InputForgets(c, answer) ==
    /\ call[c].pc = "input"
    /\ IF ~Accepts(answer)
       THEN /\ call' = [call EXCEPT ![c].pc = "done", ![c].result = Rejected,
                                    ![c].answer = answer]
            /\ UNCHANGED grantedTriples
       ELSE /\ Grant(c)
            /\ call' = [call EXCEPT ![c].pc = "resolve", ![c].granted = TRUE,
                                    ![c].answer = answer]
    /\ UNCHANGED <<fvars, svars, cvars, editor, settings, auto_approve, fs, nOps, failedGranted, approved>>
Input(c, answer) ==
    /\ call[c].pc = "input"
    /\ IF ~Accepts(answer)
       THEN /\ call' = [call EXCEPT ![c].pc = "done", ![c].result = Rejected,
                                    ![c].answer = answer]
            /\ UNCHANGED <<approved, grantedTriples>>
       ELSE /\ Remember(c)
            /\ Grant(c)
            /\ call' = [call EXCEPT ![c].pc = "resolve", ![c].granted = TRUE,
                                    ![c].answer = answer]
    /\ UNCHANGED <<fvars, svars, cvars, editor, settings, auto_approve, fs, nOps, failedGranted>>

\* target = self._resolve(operation.path, ensure_parent=...)
ResolveWith(c, ensure_parent) ==
    /\ call[c].pc = "resolve"
    /\ LET resolved == ResolveTarget(fs, call[c].op.path)
           error == MkdirError(fs, Parent(resolved))
       IN  IF ~Confined(resolved)
           THEN Raise(c, OutsideWorkspace) /\ UNCHANGED fs
           ELSE IF ensure_parent /\ error # "none"
           THEN Raise(c, error) /\ UNCHANGED fs
           ELSE /\ fs' = IF ensure_parent
                         THEN MkdirParents(fs, Parent(resolved)) ELSE fs
                /\ call' = [call EXCEPT ![c].target = resolved,
                                        ![c].pc = "apply"]
    /\ UNCHANGED <<fvars, svars, cvars, editor, settings, auto_approve, approved, nOps, grantedTriples,
                   failedGranted>>

ResolveAlwaysEnsuresParent(c) == ResolveWith(c, TRUE)
Resolve(c) == ResolveWith(c, call[c].op.kind = "create_file")

\* create_file: content = apply_diff("", diff, mode="create")
CreateApply(c) ==
    /\ call[c].pc = "apply"
    /\ call[c].op.kind = "create_file"
    /\ IF ~DiffApplies(<<>>, call[c].op.diff, "create")
       THEN Raise(c, PatchFormatError)
       ELSE call' = [call EXCEPT ![c].content = ApplyDiff(<<>>, call[c].op.diff),
                                 ![c].pc = "write"]
    /\ UNCHANGED <<fvars, svars, cvars, editor, settings, auto_approve, fs, approved, nOps, grantedTriples,
                   failedGranted>>

\* update_file: original = target.read_text(); patched = apply_diff(original, diff)
UpdateApply(c) ==
    /\ call[c].pc = "apply"
    /\ call[c].op.kind = "update_file"
    /\ LET error == OpenError(fs, call[c].target, FALSE)
       IN  IF error # "none"
           THEN Raise(c, error)
           ELSE IF ~DiffApplies(fs[call[c].target].c, call[c].op.diff, "default")
           THEN Raise(c, PatchFormatError)
           ELSE call' = [call EXCEPT
                    ![c].content = ApplyDiff(fs[call[c].target].c, call[c].op.diff),
                    ![c].pc = "write"]
    /\ UNCHANGED <<fvars, svars, cvars, editor, settings, auto_approve, fs, approved, nOps, grantedTriples,
                   failedGranted>>

\* target.write_text(content), return ApplyPatchResult(...)
Write(c) ==
    /\ call[c].pc = "write"
    /\ LET error == OpenError(fs, call[c].target, TRUE)
       IN  IF error # "none"
           THEN Raise(c, error) /\ UNCHANGED fs
           ELSE /\ fs' = WriteText(fs, call[c].target, call[c].content)
                /\ call' = [call EXCEPT ![c].pc = "done", ![c].result = "ok"]
    /\ UNCHANGED <<fvars, svars, cvars, editor, settings, auto_approve, approved, nOps, grantedTriples,
                   failedGranted>>

\* delete_file: target.unlink(missing_ok=True), return ApplyPatchResult(...)
DeleteUnlink(c) ==
    /\ call[c].pc = "apply"
    /\ call[c].op.kind = "delete_file"
    /\ LET error == UnlinkError(fs, call[c].target)
       IN  IF error # "none"
           THEN Raise(c, error) /\ UNCHANGED fs
           ELSE /\ fs' = IF Exists(fs, call[c].target)
                         THEN Unlink(fs, call[c].target) ELSE fs
                /\ call' = [call EXCEPT ![c].pc = "done", ![c].result = "ok"]
    /\ UNCHANGED <<fvars, svars, cvars, editor, settings, auto_approve, approved, nOps, grantedTriples,
                   failedGranted>>

\* the result (or the exception) reaches the caller
Return(c) ==
    /\ call[c].pc = "done"
    /\ call' = [call EXCEPT ![c] = IdleCall]
    /\ failedGranted' =
           IF call[c].granted /\ call[c].result # "ok"
           THEN failedGranted \cup {Triple(c)} ELSE failedGranted
    /\ UNCHANGED <<fvars, svars, cvars, editor, settings, auto_approve, fs, approved, nOps, grantedTriples>>

EditorStep(c) ==
    \/ RelativePath(c)
    \/ RequireApproval(c)
    \/ \E answer \in Answers : Input(c, answer)
    \/ Resolve(c)
    \/ CreateApply(c)
    \/ UpdateApply(c)
    \/ Write(c)
    \/ DeleteUnlink(c)
    \/ Return(c)

\* One tool call at a time: the editor methods are synchronous.
Next ==
    \/ \E o \in EditorOps : Call(1, o)
    \/ EditorStep(1)

Init ==
    /\ EditorInit
    /\ FingerprintIdle
    /\ SupervisorIdle
    /\ CommandsIdle

Spec == Init /\ [][Next]_vars

(***************************************************************************)
(* Two tool calls in flight on one editor (callers on separate threads):   *)
(* the steps of the two methods interleave.                                *)
(***************************************************************************)
ConcurrentOps ==
    { Operation("create_file", Path(FALSE, <<"n", "m">>), <<"+", "a">>),
      Operation("update_file", Path(FALSE, <<"f">>), <<"-", "a", "+", "b">>),
      Operation("delete_file", Path(FALSE, <<"f">>), <<>>) }

NextConcurrent ==
    \E c \in Callers :
        \/ \E o \in ConcurrentOps : Call(c, o)
        \/ EditorStep(c)

SpecConcurrent == Init /\ [][NextConcurrent]_vars

(***************************************************************************)
(* ApprovalTracker.fingerprint applied to two triples drawn from bounded   *)
(* sets of texts.  A relative path holds no NUL (Path.resolve raises on an *)
(* embedded null byte); a diff may.                                        *)
(***************************************************************************)
RECURSIVE Texts(_, _)
Texts(chars, n) ==
    IF n = 0 THEN { <<>> }
    ELSE LET shorter == Texts(chars, n - 1)
         IN  shorter \cup { Append(t, ch) : t \in shorter, ch \in chars }

FingerprintTriples ==
    { <<k, p, d>> : k \in {"create_file", "update_file", "delete_file"},
                    p \in Texts({"a", "/"}, MaxFpLen) \ { <<>> },
                    d \in Texts({"a", NUL}, MaxFpLen) }

\* the editor is not running
EditorIdle ==
    /\ editor = "coding_agent"
    /\ settings = [auto_approve |-> TRUE, APPLY_PATCH_AUTO_APPROVE |-> "unset"]
    /\ auto_approve = TRUE
    /\ fs = InitFS
    /\ approved = {}
    /\ call = [c \in Callers |-> IdleCall]
    /\ nOps = 0
    /\ grantedTriples = {}
    /\ failedGranted = {}

FingerprintInit ==
    /\ tripleA \in FingerprintTriples
    /\ tripleB \in FingerprintTriples
    /\ digestA = NoDigest
    /\ digestB = NoDigest

ComputeFingerprints ==
    /\ digestA = NoDigest
    /\ digestA' = Fingerprint(tripleA[1], tripleA[2], tripleA[3])
    /\ digestB' = Fingerprint(tripleB[1], tripleB[2], tripleB[3])
    /\ UNCHANGED <<tripleA, tripleB, evars, svars, cvars>>

NextFingerprint == ComputeFingerprints

InitFingerprint ==
    /\ EditorIdle
    /\ FingerprintInit
    /\ SupervisorIdle
    /\ CommandsIdle

SpecFingerprint == InitFingerprint /\ [][NextFingerprint]_vars

(***************************************************************************)
(* ShellExecutor._monitor_process: one spawned process, the five tasks of  *)
(* the supervising call, and the event loop and the operating system       *)
(* around them.  Time is counted in ticks of the inactivity poll interval.  *)
(***************************************************************************)
Timeouts == {None} \cup 0..(MaxTime - 1)
InactivityTimeouts == {None} \cup 1..(MaxTime - 1)

\* _execute_with_watchdogs has spawned the process and _monitor_process has
\* created its tasks (shell.py lines 397-432)
SupervisorInit ==
    /\ config \in [timeout : Timeouts, inactivity_timeout : InactivityTimeouts,
                   background_on_timeout : BOOLEAN]
    /\ now = 0
    /\ proc = [alive |-> TRUE, blocked |-> "none", status |-> None,
               returncode |-> None, closed |-> FALSE, kills |-> 0]
    /\ descendant \in BOOLEAN
    /\ pipe = [s \in Streams |-> <<>>]
    /\ written = [s \in Streams |-> <<>>]
    /\ chunks = [s \in Streams |-> <<>>]
    /\ last_activity = 0
    /\ task = [t \in Tasks |->
                 IF t = "reaper" THEN "none"
                 ELSE IF t = "timeout_task" /\ config.timeout = None THEN "none"
                 ELSE IF t = "inactivity_task" /\ config.inactivity_timeout = None
                      THEN "none"
                 ELSE "pending"]
    /\ poll_at = 1
    /\ mon = [pc |-> "race", timed_out |-> FALSE, inactivity_triggered |-> FALSE,
              background_detached |-> FALSE, done |-> {}, result |-> NoResult]

Finished == mon.pc \in {"returned", "raised"}

\* ---- the operating system and the process ----

TimerPending ==
    task["timeout_task"] = "pending" \/ task["inactivity_task"] = "pending"

\* time passes; it is followed only while a timer can still observe it
Tick ==
    /\ TimerPending
    /\ now < MaxTime
    /\ now' = now + 1
    /\ UNCHANGED <<evars, fvars, cvars, config, proc, descendant, pipe, written, chunks,
                   last_activity, task, poll_at, mon>>

\* the process writes a chunk to stdout or stderr (stdout=PIPE, stderr=PIPE);
\* a chunk larger than the room left in the pipe keeps the process in its
\* write until the reader has taken the chunk
ProcessWrites(s, large) ==
    /\ proc.alive
    /\ proc.blocked = "none"
    /\ Len(written.stdout) + Len(written.stderr) < MaxChunks
    /\ LET byte == OutputBytes[((Len(written.stdout) + Len(written.stderr))
                                    % Len(OutputBytes)) + 1]
       IN  /\ pipe' = [pipe EXCEPT ![s] = Append(@, byte)]
           /\ written' = [written EXCEPT ![s] = Append(@, byte)]
    /\ proc' = [proc EXCEPT !.blocked = IF large THEN s ELSE "none"]
    /\ UNCHANGED <<evars, fvars, cvars, config, now, descendant, chunks,
                   last_activity, task, poll_at, mon>>

\* the process exits by itself
ProcessExits(code) ==
    /\ proc.alive
    /\ proc.blocked = "none"
    /\ proc' = [proc EXCEPT !.alive = FALSE, !.status = code]
    /\ UNCHANGED <<evars, fvars, cvars, config, now, descendant, pipe, written, chunks,
                   last_activity, task, poll_at, mon>>

\* the descendant that inherited stdout/stderr exits
DescendantExits ==
    /\ descendant
    /\ descendant' = FALSE
    /\ UNCHANGED <<evars, fvars, cvars, config, now, proc, pipe, written, chunks,
                   last_activity, task, poll_at, mon>>

\* ---- the event loop ----

\* the child watcher reports the exit: Process.returncode is set
ProcessExited ==
    /\ ~proc.alive
    /\ proc.returncode = None
    /\ proc.status # None
    /\ proc' = [proc EXCEPT !.returncode = proc.status]
    /\ UNCHANGED <<evars, fvars, cvars, config, now, descendant, pipe, written, chunks,
                   last_activity, task, poll_at, mon>>

\* the process has exited and both pipes are at end-of-file: the transport
\* closes
ConnectionLost ==
    /\ proc.returncode # None
    /\ ~descendant
    /\ ~proc.closed
    /\ proc' = [proc EXCEPT !.closed = TRUE]
    /\ UNCHANGED <<evars, fvars, cvars, config, now, descendant, pipe, written, chunks,
                   last_activity, task, poll_at, mon>>

\* wait_task = asyncio.create_task(proc.wait()) completes
WaitTask ==
    /\ task["wait_task"] = "pending"
    /\ proc.returncode # None
    /\ task' = [task EXCEPT !["wait_task"] = "done"]
    /\ UNCHANGED <<evars, fvars, cvars, config, now, proc, descendant, pipe, written,
                   chunks, last_activity, poll_at, mon>>

\* timeout_task = asyncio.create_task(asyncio.sleep(timeout)) completes
TimeoutTask ==
    /\ task["timeout_task"] = "pending"
    /\ now >= config.timeout
    /\ task' = [task EXCEPT !["timeout_task"] = "done"]
    /\ UNCHANGED <<evars, fvars, cvars, config, now, proc, descendant, pipe, written,
                   chunks, last_activity, poll_at, mon>>

\* _watch_inactivity: one turn of its loop after the sleep
WatchInactivity ==
    /\ task["inactivity_task"] = "pending"
    /\ now >= poll_at
    /\ IF now - last_activity > config.inactivity_timeout
       THEN task' = [task EXCEPT !["inactivity_task"] = "done"] /\ UNCHANGED poll_at
       ELSE poll_at' = now + 1 /\ UNCHANGED task
    /\ UNCHANGED <<evars, fvars, cvars, config, now, proc, descendant, pipe, written,
                   chunks, last_activity, mon>>

PumpTask(s) == IF s = "stdout" THEN "stdout_task" ELSE "stderr_task"

\* end-of-input: nobody holds the write end and nothing is left to read
AtEof(s) == ~proc.alive /\ ~descendant /\ pipe[s] = <<>>

\* _pump_stream: one turn of its loop
PumpStream(s) ==
    /\ task[PumpTask(s)] = "pending"
    /\ \/ /\ pipe[s] # <<>>
          /\ chunks' = [chunks EXCEPT ![s] = Append(@, Head(pipe[s]))]
          /\ pipe' = [pipe EXCEPT ![s] = Tail(@)]
          /\ proc' = [proc EXCEPT !.blocked = IF @ = s THEN "none" ELSE @]
          /\ last_activity' = now
          /\ UNCHANGED task
       \/ /\ AtEof(s)
          /\ task' = [task EXCEPT ![PumpTask(s)] = "done"]
          /\ UNCHANGED <<chunks, pipe, proc, last_activity>>
    /\ UNCHANGED <<evars, fvars, cvars, config, now, descendant, written, poll_at, mon>>

\* _reap_background_process
ReapBackgroundProcess ==
    /\ task["reaper"] = "pending"
    /\ proc.returncode # None
    /\ task' = [task EXCEPT !["reaper"] = "done"]
    /\ UNCHANGED <<evars, fvars, cvars, config, now, proc, descendant, pipe, written,
                   chunks, last_activity, poll_at, mon>>

\* ---- the supervising coroutine ----

\* which branch of the loop body runs for a set of completed tasks
WinnerTimersFirst(done) ==
    IF "timeout_task" \in done THEN "duration"
    ELSE IF "inactivity_task" \in done THEN "inactivity"
    ELSE "exit"
Winner(done) ==
    IF "wait_task" \in done THEN "exit"
    ELSE IF "timeout_task" \in done THEN "duration"
    ELSE "inactivity"

\* proc.kill(): ProcessLookupError once the transport has closed, nothing on
\* a process that has already exited, SIGKILL otherwise
KillRaises == proc.closed

AfterKill ==
    [proc EXCEPT !.kills = @ + 1,
                 !.alive = FALSE,
                 !.blocked = "none",
                 !.status = IF proc.alive THEN Killed ELSE @]

\* done, _ = await asyncio.wait(pending, FIRST_COMPLETED) and the branch taken
FirstCompleted ==
    /\ mon.pc = "race"
    /\ LET done == {t \in RaceTasks : task[t] = "done"}
           winner == Winner(done)
       IN  /\ done # {}
           /\ IF winner = "exit"
              THEN /\ mon' = [mon EXCEPT !.pc = "cancel_timers", !.done = done]
                   /\ UNCHANGED proc
              ELSE IF winner = "duration" /\ config.background_on_timeout
              THEN /\ mon' = [mon EXCEPT !.pc = "cancel_timers", !.done = done,
                                         !.timed_out = TRUE,
                                         !.background_detached = TRUE]
                   /\ UNCHANGED proc
              ELSE /\ mon' = [mon EXCEPT
                        !.pc = IF KillRaises THEN "raised" ELSE "await_wait",
                        !.done = done,
                        !.timed_out = (winner = "duration"),
                        !.inactivity_triggered = (winner = "inactivity")]
                   /\ proc' = AfterKill
    /\ UNCHANGED <<evars, fvars, cvars, config, now, descendant, pipe, written, chunks,
                   last_activity, task, poll_at>>

\* await wait_task, after the kill
AwaitWaitTask ==
    /\ mon.pc = "await_wait"
    /\ task["wait_task"] = "done"
    /\ mon' = [mon EXCEPT !.pc = "cancel_timers"]
    /\ UNCHANGED <<evars, fvars, cvars, config, now, proc, descendant, pipe, written,
                   chunks, last_activity, task, poll_at>>

Cancelled(t) == IF task[t] = "pending" THEN "cancelled" ELSE task[t]

\* the timers left as they are
LeaveTimers ==
    /\ mon.pc = "cancel_timers"
    /\ mon' = [mon EXCEPT !.pc = "settle_wait"]
    /\ UNCHANGED <<evars, fvars, cvars, config, now, proc, descendant, pipe, written,
                   chunks, last_activity, task, poll_at>>
\* for task in (timeout_task, inactivity_task): cancel it and await it
CancelTimers ==
    /\ mon.pc = "cancel_timers"
    /\ task' = [task EXCEPT !["timeout_task"] = Cancelled("timeout_task"),
                            !["inactivity_task"] = Cancelled("inactivity_task")]
    /\ mon' = [mon EXCEPT !.pc = "settle_wait"]
    /\ UNCHANGED <<evars, fvars, cvars, config, now, proc, descendant, pipe, written,
                   chunks, last_activity, poll_at>>

\* if background_detached and not wait_task.done(): cancel it, start the
\* reaper; elif not wait_task.done(): await wait_task
SettleWait ==
    /\ mon.pc = "settle_wait"
    /\ IF mon.background_detached /\ task["wait_task"] # "done"
       THEN task' = [task EXCEPT !["wait_task"] = "cancelled",
                                 !["reaper"] = "pending"]
       ELSE task["wait_task"] = "done" /\ UNCHANGED task
    /\ mon' = [mon EXCEPT !.pc = IF mon.background_detached
                                 THEN "cancel_pumps" ELSE "await_stdout"]
    /\ UNCHANGED <<evars, fvars, cvars, config, now, proc, descendant, pipe, written,
                   chunks, last_activity, poll_at>>

\* background_detached: cancel both pumps and await them
CancelPumps ==
    /\ mon.pc = "cancel_pumps"
    /\ task' = [task EXCEPT !["stdout_task"] = Cancelled("stdout_task"),
                            !["stderr_task"] = Cancelled("stderr_task")]
    /\ mon' = [mon EXCEPT !.pc = "result"]
    /\ UNCHANGED <<evars, fvars, cvars, config, now, proc, descendant, pipe, written,
                   chunks, last_activity, poll_at>>

\* the result built without the end of the stdout pump
SkipStdout ==
    /\ mon.pc = "await_stdout"
    /\ mon' = [mon EXCEPT !.pc = "await_stderr"]
    /\ UNCHANGED <<evars, fvars, cvars, config, now, proc, descendant, pipe, written,
                   chunks, last_activity, task, poll_at>>
\* await stdout_task
AwaitStdout ==
    /\ mon.pc = "await_stdout"
    /\ task["stdout_task"] = "done"
    /\ mon' = [mon EXCEPT !.pc = "await_stderr"]
    /\ UNCHANGED <<evars, fvars, cvars, config, now, proc, descendant, pipe, written,
                   chunks, last_activity, task, poll_at>>

\* await stderr_task
AwaitStderr ==
    /\ mon.pc = "await_stderr"
    /\ task["stderr_task"] = "done"
    /\ mon' = [mon EXCEPT !.pc = "result"]
    /\ UNCHANGED <<evars, fvars, cvars, config, now, proc, descendant, pipe, written,
                   chunks, last_activity, task, poll_at>>

TimeoutReason ==
    IF mon.inactivity_triggered /\ config.inactivity_timeout # None
    THEN "inactivity"
    ELSE IF mon.timed_out
         THEN IF mon.background_detached THEN "duration_background" ELSE "duration"
    ELSE "none"

\* the message appended to stderr
Annotated(stderr_bytes, reason) ==
    IF reason = "none" THEN stderr_bytes
    ELSE IF stderr_bytes # <<>> THEN stderr_bytes \o <<"\n", reason>>
    ELSE <<reason>>

\* shell.py lines 478-546: the result
BuildResult ==
    /\ mon.pc = "result"
    /\ mon' = [mon EXCEPT
           !.pc = "returned",
           !.result = [ stdout |-> IF mon.background_detached
                                   THEN <<>> ELSE chunks.stdout,
                        stderr |-> Annotated(chunks.stderr, TimeoutReason),
                        exit_code |-> proc.returncode,
                        timed_out |-> mon.inactivity_triggered \/ mon.timed_out,
                        timeout_reason |-> TimeoutReason ]]
    /\ UNCHANGED <<evars, fvars, cvars, config, now, proc, descendant, pipe, written,
                   chunks, last_activity, task, poll_at>>

\* what the event loop and the supervising call do by themselves
LoopStep ==
    \/ ProcessExited
    \/ ConnectionLost
    \/ WaitTask
    \/ TimeoutTask
    \/ WatchInactivity
    \/ \E s \in Streams : PumpStream(s)
    \/ ReapBackgroundProcess
    \/ FirstCompleted
    \/ AwaitWaitTask
    \/ CancelTimers
    \/ SettleWait
    \/ CancelPumps
    \/ AwaitStdout
    \/ AwaitStderr
    \/ BuildResult

\* what the process and its descendants do
ChildStep ==
    \/ \E s \in Streams, large \in BOOLEAN : ProcessWrites(s, large)
    \/ \E code \in {0, 1} : ProcessExits(code)
    \/ DescendantExits

NextSupervisor == Tick \/ ChildStep \/ LoopStep

InitSupervisor ==
    /\ EditorIdle
    /\ FingerprintIdle
    /\ SupervisorInit
    /\ CommandsIdle

SpecSupervisor == InitSupervisor /\ [][NextSupervisor]_vars

(***************************************************************************)
(* ShellExecutor: the pattern tables and the command rewriting of           *)
(* _prepare_command, on commands as sequences of characters.                *)
(***************************************************************************)
\* _YES_FLAG_PATTERNS, _AUTO_CONFIRM_PATTERNS, _VITE_CREATE_PATTERNS and
\* _DEV_SERVER_PATTERNS, element by element
PATTERNS ==
    LET Lit(t) == [t |-> "lit", s |-> t]
        WordEdge == [t |-> "b", s |-> <<>>]
        Spaces == [t |-> "ws+", s |-> <<>>]
        NonSpaceStar == [t |-> "nonsp*", s |-> <<>>]
        NonSpacePlus == [t |-> "nonsp+", s |-> <<>>]
        AnyStar == [t |-> "any*", s |-> <<>>]
        AnyPlus == [t |-> "any+", s |-> <<>>]
        Opt(t) == [t |-> "opt", s |-> t]
        Alt(ts) == [t |-> "alt", s |-> ts]
    IN  [
      \* _YES_FLAG_PATTERNS
      YES_FLAG_PATTERNS |->
          << \* \bnpm\s+init\b
             <<WordEdge, Lit(<<"n", "p", "m">>), Spaces, Lit(<<"i", "n", "i", "t">>), WordEdge>>,
             \* \bnpm\s+create\b
             <<WordEdge, Lit(<<"n", "p", "m">>), Spaces, Lit(<<"c", "r", "e", "a", "t", "e">>), WordEdge>>,
             \* \bnpx\s+[^ ]*create
             <<WordEdge, Lit(<<"n", "p", "x">>), Spaces, NonSpaceStar, Lit(<<"c", "r", "e", "a", "t", "e">>)>>,
             \* \byarn\s+create\b
             <<WordEdge, Lit(<<"y", "a", "r", "n">>), Spaces, Lit(<<"c", "r", "e", "a", "t", "e">>), WordEdge>>,
             \* \bpnpm\s+create\b
             <<WordEdge, Lit(<<"p", "n", "p", "m">>), Spaces, Lit(<<"c", "r", "e", "a", "t", "e">>), WordEdge>> >>,

      \* _AUTO_CONFIRM_PATTERNS
      AUTO_CONFIRM_PATTERNS |->
          << \* \bpython\s+manage\.py\s+migrate\b
             <<WordEdge, Lit(<<"p", "y", "t", "h", "o", "n">>), Spaces, Lit(<<"m", "a", "n", "a", "g", "e", ".", "p", "y">>), Spaces, Lit(<<"m", "i", "g", "r", "a", "t", "e">>), WordEdge>>,
             \* \bpython\s+manage\.py\s+makemigrations\b
             <<WordEdge, Lit(<<"p", "y", "t", "h", "o", "n">>), Spaces, Lit(<<"m", "a", "n", "a", "g", "e", ".", "p", "y">>), Spaces, Lit(<<"m", "a", "k", "e", "m", "i", "g", "r", "a", "t", "i", "o", "n", "s">>), WordEdge>>,
             \* \bdjango-admin\s+migrate\b
             <<WordEdge, Lit(<<"d", "j", "a", "n", "g", "o", "-", "a", "d", "m", "i", "n">>), Spaces, Lit(<<"m", "i", "g", "r", "a", "t", "e">>), WordEdge>>,
             \* \bdjango-admin\s+makemigrations\b
             <<WordEdge, Lit(<<"d", "j", "a", "n", "g", "o", "-", "a", "d", "m", "i", "n">>), Spaces, Lit(<<"m", "a", "k", "e", "m", "i", "g", "r", "a", "t", "i", "o", "n", "s">>), WordEdge>>,
             \* \bnpx\s+expo\b
             <<WordEdge, Lit(<<"n", "p", "x">>), Spaces, Lit(<<"e", "x", "p", "o">>), WordEdge>>,
             \* \bexpo\s+(init|start)\b
             <<WordEdge, Lit(<<"e", "x", "p", "o">>), Spaces, Alt(<<<<"i", "n", "i", "t">>, <<"s", "t", "a", "r", "t">>>>), WordEdge>>,
             \* \bpnpm\s+dlx\s+[^ ]*create\b
             <<WordEdge, Lit(<<"p", "n", "p", "m">>), Spaces, Lit(<<"d", "l", "x">>), Spaces, NonSpaceStar, Lit(<<"c", "r", "e", "a", "t", "e">>), WordEdge>>,
             \* \bnpx\s+[^ ]*create-[^ ]+\b
             <<WordEdge, Lit(<<"n", "p", "x">>), Spaces, NonSpaceStar, Lit(<<"c", "r", "e", "a", "t", "e", "-">>), NonSpacePlus, WordEdge>> >>,

      \* _VITE_CREATE_PATTERNS
      VITE_CREATE_PATTERNS |->
          << \* \bnpm\s+create\s+vite(@latest)?\b
             <<WordEdge, Lit(<<"n", "p", "m">>), Spaces, Lit(<<"c", "r", "e", "a", "t", "e">>), Spaces, Lit(<<"v", "i", "t", "e">>), Opt(<<"@", "l", "a", "t", "e", "s", "t">>), WordEdge>>,
             \* \bnpx\s+create-vite\b
             <<WordEdge, Lit(<<"n", "p", "x">>), Spaces, Lit(<<"c", "r", "e", "a", "t", "e", "-", "v", "i", "t", "e">>), WordEdge>>,
             \* \bpnpm\s+create\s+vite(@latest)?\b
             <<WordEdge, Lit(<<"p", "n", "p", "m">>), Spaces, Lit(<<"c", "r", "e", "a", "t", "e">>), Spaces, Lit(<<"v", "i", "t", "e">>), Opt(<<"@", "l", "a", "t", "e", "s", "t">>), WordEdge>> >>,

      \* _DEV_SERVER_PATTERNS
      DEV_SERVER_PATTERNS |->
          << \* \bnpm\s+run\s+(dev|start|preview|serve|storybook)\b
             <<WordEdge, Lit(<<"n", "p", "m">>), Spaces, Lit(<<"r", "u", "n">>), Spaces, Alt(<<<<"d", "e", "v">>, <<"s", "t", "a", "r", "t">>, <<"p", "r", "e", "v", "i", "e", "w">>, <<"s", "e", "r", "v", "e">>, <<"s", "t", "o", "r", "y", "b", "o", "o", "k">>>>), WordEdge>>,
             \* \bnpm\s+run\s+.*(--watch|--serve)\b
             <<WordEdge, Lit(<<"n", "p", "m">>), Spaces, Lit(<<"r", "u", "n">>), Spaces, AnyStar, Alt(<<<<"-", "-", "w", "a", "t", "c", "h">>, <<"-", "-", "s", "e", "r", "v", "e">>>>), WordEdge>>,
             \* \bnpx\s+next\s+dev\b
             <<WordEdge, Lit(<<"n", "p", "x">>), Spaces, Lit(<<"n", "e", "x", "t">>), Spaces, Lit(<<"d", "e", "v">>), WordEdge>>,
             \* \bnext\s+dev\b
             <<WordEdge, Lit(<<"n", "e", "x", "t">>), Spaces, Lit(<<"d", "e", "v">>), WordEdge>>,
             \* \bvite\s+dev\b
             <<WordEdge, Lit(<<"v", "i", "t", "e">>), Spaces, Lit(<<"d", "e", "v">>), WordEdge>>,
             \* \bnpx\s+vite\s+dev\b
             <<WordEdge, Lit(<<"n", "p", "x">>), Spaces, Lit(<<"v", "i", "t", "e">>), Spaces, Lit(<<"d", "e", "v">>), WordEdge>>,
             \* \bpnpm\s+(dev|preview|start|serve)\b
             <<WordEdge, Lit(<<"p", "n", "p", "m">>), Spaces, Alt(<<<<"d", "e", "v">>, <<"p", "r", "e", "v", "i", "e", "w">>, <<"s", "t", "a", "r", "t">>, <<"s", "e", "r", "v", "e">>>>), WordEdge>>,
             \* \byarn\s+(dev|start|preview|serve|storybook)\b
             <<WordEdge, Lit(<<"y", "a", "r", "n">>), Spaces, Alt(<<<<"d", "e", "v">>, <<"s", "t", "a", "r", "t">>, <<"p", "r", "e", "v", "i", "e", "w">>, <<"s", "e", "r", "v", "e">>, <<"s", "t", "o", "r", "y", "b", "o", "o", "k">>>>), WordEdge>>,
             \* \bnpx\s+astro\s+dev\b
             <<WordEdge, Lit(<<"n", "p", "x">>), Spaces, Lit(<<"a", "s", "t", "r", "o">>), Spaces, Lit(<<"d", "e", "v">>), WordEdge>>,
             \* \bnpx\s+remix\s+dev\b
             <<WordEdge, Lit(<<"n", "p", "x">>), Spaces, Lit(<<"r", "e", "m", "i", "x">>), Spaces, Lit(<<"d", "e", "v">>), WordEdge>>,
             \* \bnpx\s+expo\b
             <<WordEdge, Lit(<<"n", "p", "x">>), Spaces, Lit(<<"e", "x", "p", "o">>), WordEdge>>,
             \* \bexpo\s+start\b
             <<WordEdge, Lit(<<"e", "x", "p", "o">>), Spaces, Lit(<<"s", "t", "a", "r", "t">>), WordEdge>>,
             \* \buvicorn\b.+(--reload|--workers)
             <<WordEdge, Lit(<<"u", "v", "i", "c", "o", "r", "n">>), WordEdge, AnyPlus, Alt(<<<<"-", "-", "r", "e", "l", "o", "a", "d">>, <<"-", "-", "w", "o", "r", "k", "e", "r", "s">>>>)>>,
             \* \bflask\s+run\b
             <<WordEdge, Lit(<<"f", "l", "a", "s", "k">>), Spaces, Lit(<<"r", "u", "n">>), WordEdge>>,
             \* \bdjango-admin\s+runserver\b
             <<WordEdge, Lit(<<"d", "j", "a", "n", "g", "o", "-", "a", "d", "m", "i", "n">>), Spaces, Lit(<<"r", "u", "n", "s", "e", "r", "v", "e", "r">>), WordEdge>>,
             \* \bpython\s+-m\s+http\.server\b
             <<WordEdge, Lit(<<"p", "y", "t", "h", "o", "n">>), Spaces, Lit(<<"-", "m">>), Spaces, Lit(<<"h", "t", "t", "p", ".", "s", "e", "r", "v", "e", "r">>), WordEdge>>,
             \* \bnuxi\s+dev\b
             <<WordEdge, Lit(<<"n", "u", "x", "i">>), Spaces, Lit(<<"d", "e", "v">>), WordEdge>>,
             \* \bnpx\s+nuxt\s+dev\b
             <<WordEdge, Lit(<<"n", "p", "x">>), Spaces, Lit(<<"n", "u", "x", "t">>), Spaces, Lit(<<"d", "e", "v">>), WordEdge>> >> ]

\* _split_background_suffix: <<base, background>>
SplitBackgroundSuffix(command) ==
    LET stripped == RStrip(command)
    IN  IF EndsWith(stripped, <<"&">>)
        THEN <<RStrip(SubSeq(stripped, 1, Len(stripped) - 1)), <<" ", "&">>>>
        ELSE <<command, <<>>>>

\* _append_flag
AppendFlag(command, flag) ==
    LET parts == SplitBackgroundSuffix(command)
        base == parts[1]
        background == parts[2]
        sep == <<" ", "-", "-", " ">>
    IN  (IF Contains(base, sep)
         THEN ReplaceFirst(base, sep, <<" ">> \o flag \o sep)
         ELSE Strip(base \o <<" ">> \o flag)) \o background

\* _flag_present: re.search(rf"(?:^|\s){re.escape(flag)}(?:\s|$)", base)
FlagPresent(command_lower, flag) ==
    LET base == SplitBackgroundSuffix(command_lower)[1]
    IN  \E i \in Occurrences(base, flag) :
            /\ i = 1 \/ IsSpace(base[i - 1])
            /\ i + Len(flag) > Len(base) \/ IsSpace(base[i + Len(flag)])

\* _ensure_flag
EnsureFlag(command, flag) ==
    IF FlagPresent(Lower(command), flag) THEN command ELSE AppendFlag(command, flag)

\* _ensure_subcommand_flag
EnsureSubcommandFlag(command, flag) ==
    LET parts == SplitBackgroundSuffix(command)
        base == parts[1]
        background == parts[2]
        sep == <<" ", "-", "-", " ">>
    IN  IF ~Contains(base, sep) THEN EnsureFlag(base, flag) \o background
        ELSE LET i == Find(base, sep)
                 prefix == SubSeq(base, 1, i - 1)
                 suffix == SubSeq(base, i + Len(sep), Len(base))
             IN  IF FlagPresent(Lower(suffix), flag) THEN command
                 ELSE prefix \o sep \o LStrip(flag \o <<" ">> \o suffix)
                          \o background

\* _has_yes_flag
HasYesFlag(command_lower) ==
    Contains(command_lower, <<" ", "-", "-", "y", "e", "s">>) \/ Contains(command_lower, <<" ", "-", "y">>)

\* _starts_with_yes_pipe
StartsWithYesPipe(command) ==
    LET stripped == LStrip(command)
        prefix == <<"y", "e", "s", " ", "|">>
    IN  Len(prefix) <= Len(stripped) /\ SubSeq(stripped, 1, Len(prefix)) = prefix

\* the pipe prepended without looking for one
AutoConfirmAlways(command, command_lower) ==
    IF SearchAny(PATTERNS.AUTO_CONFIRM_PATTERNS, command_lower)
    THEN <<"y", "e", "s", " ", "|", " ">> \o command
    ELSE command
\* _auto_confirm_interactive
AutoConfirmInteractive(command, command_lower) ==
    IF StartsWithYesPipe(command) THEN command
    ELSE IF SearchAny(PATTERNS.AUTO_CONFIRM_PATTERNS, command_lower)
         THEN <<"y", "e", "s", " ", "|", " ">> \o command
    ELSE command

\* _requires_background
RequiresBackground(command) == SearchAny(PATTERNS.DEV_SERVER_PATTERNS, Lower(Strip(command)))

\* _has_inline_background_operator
HasInlineBackgroundOperator(command) ==
    \E idx \in 1..Len(command) :
        /\ command[idx] = "&"
        /\ idx > 1
        /\ command[idx - 1] \notin {"&", ">"}
        /\ idx < Len(command) => command[idx + 1] # ">"
        /\ IsSpace(command[idx - 1])
        /\ idx < Len(command) => IsSpace(command[idx + 1])

\* _is_backgrounded
IsBackgrounded(command) ==
    LET stripped == RStrip(command)
    IN  \/ EndsWith(stripped, <<"&">>)
        \/ HasInlineBackgroundOperator(stripped)
        \/ Contains(stripped, <<"n", "o", "h", "u", "p", " ">>) /\ Contains(stripped, <<"&">>)

\* s.replace("'", "'\"'\"'")
RECURSIVE EscapeQuotes(_)
EscapeQuotes(s) ==
    IF s = <<>> THEN <<>>
    ELSE (IF Head(s) = "'" THEN <<"'", "\"", "'", "\"", "'">> ELSE <<Head(s)>>)
             \o EscapeQuotes(Tail(s))

\* shlex.quote
ShlexQuote(s) ==
    IF s = <<>> THEN <<"'", "'">>
    ELSE IF \A i \in DOMAIN s :
                \* [\w@%+=:,./-] is left unquoted
                WordChar(s[i]) \/ s[i] \in {"@", "%", "+", "=", ":", ",", ".", "/", "-"}
         THEN s
    ELSE <<"'">> \o EscapeQuotes(s) \o <<"'">>

\* _wrap_background_command
WrapBackgroundCommand(command) ==
    LET parts == Split(command, <<"&", "&">>)
        Detached(part) ==
            LET stripped == Strip(part)
                body == IF EndsWith(stripped, <<"&">>)
                        THEN RStrip(SubSeq(stripped, 1, Len(stripped) - 1))
                        ELSE stripped
            IN  IF IsBackgrounded(stripped)
                THEN <<"(", "t", "r", "a", "p", " ", "'", "'", " ", "H", "U", "P", ";", " ", "s", "e", "t", "s", "i", "d", " ", "s", "h", " ", "-", "c", " ">> \o ShlexQuote(body)
                         \o <<" ", ">", "/", "d", "e", "v", "/", "n", "u", "l", "l", " ", "2", ">", "&", "1", " ", "&", ")", " ", "&", "&", " ", "e", "c", "h", "o", " ", "$", "!">>
                ELSE part
    IN  JoinText([idx \in DOMAIN parts |->
                     IF idx = Len(parts) THEN Detached(parts[idx]) ELSE parts[idx]],
                 <<" ", "&", "&", " ">>)

\* _prepare_command
PrepareCommand(cmd) ==
    LET stripped == Strip(cmd)
        lower0 == Lower(stripped)
        \* the --yes of the scaffolding commands
        with_yes ==
            IF ~HasYesFlag(lower0) /\ SearchAny(PATTERNS.YES_FLAG_PATTERNS, lower0)
            THEN AppendFlag(stripped, <<"-", "-", "y", "e", "s">>)
            ELSE stripped
        lower1 == Lower(with_yes)
        \* the React compiler flag of create-next-app
        compiler_flag ==
            IF policy.react_compiler_preference = "use"
            THEN <<"-", "-", "u", "s", "e", "-", "r", "e", "a", "c", "t", "-", "c", "o", "m", "p", "i", "l", "e", "r">>
            ELSE <<"-", "-", "n", "o", "-", "u", "s", "e", "-", "r", "e", "a", "c", "t", "-", "c", "o", "m", "p", "i", "l", "e", "r">>
        with_compiler ==
            IF /\ Contains(lower1, <<"c", "r", "e", "a", "t", "e", "-", "n", "e", "x", "t", "-", "a", "p", "p">>)
               /\ ~Contains(lower1, <<"-", "-", "u", "s", "e", "-", "r", "e", "a", "c", "t", "-", "c", "o", "m", "p", "i", "l", "e", "r">>)
               /\ ~Contains(lower1, <<"-", "-", "n", "o", "-", "u", "s", "e", "-", "r", "e", "a", "c", "t", "-", "c", "o", "m", "p", "i", "l", "e", "r">>)
            THEN AppendFlag(with_yes, compiler_flag)
            ELSE with_yes
        \* yes | ...
        confirmed == AutoConfirmInteractive(with_compiler, lower1)
        \* the flags of the vite wizard
        with_vite ==
            IF SearchAny(PATTERNS.VITE_CREATE_PATTERNS, Lower(confirmed))
            THEN EnsureSubcommandFlag(
                     EnsureSubcommandFlag(confirmed, <<"-", "-", "n", "o", "-", "r", "o", "l", "l", "d", "o", "w", "n">>),
                     <<"-", "-", "n", "o", "-", "i", "n", "t", "e", "r", "a", "c", "t", "i", "v", "e">>)
            ELSE confirmed
        rewritten == IF policy.force_non_interactive THEN with_vite ELSE stripped
    IN  IF /\ policy.force_non_interactive
           /\ RequiresBackground(rewritten)
           /\ IsBackgrounded(rewritten)
        THEN WrapBackgroundCommand(rewritten)
        ELSE rewritten

\* commands a caller may send
Commands ==
    { \* 'ls'
      <<"l", "s">>,
      \* '  ls  '
      <<" ", " ", "l", "s", " ", " ">>,
      \* 'npm run build'
      <<"n", "p", "m", " ", "r", "u", "n", " ", "b", "u", "i", "l", "d">>,
      \* 'sleep 5 &'
      <<"s", "l", "e", "e", "p", " ", "5", " ", "&">>,
      \* 'echo a & echo b'
      <<"e", "c", "h", "o", " ", "a", " ", "&", " ", "e", "c", "h", "o", " ", "b">>,
      \* 'npm run dev'
      <<"n", "p", "m", " ", "r", "u", "n", " ", "d", "e", "v">>,
      \* 'npm run dev &'
      <<"n", "p", "m", " ", "r", "u", "n", " ", "d", "e", "v", " ", "&">>,
      \* 'npm run dev & echo $!'
      <<"n", "p", "m", " ", "r", "u", "n", " ", "d", "e", "v", " ", "&", " ", "e", "c", "h", "o", " ", "$", "!">>,
      \* 'npm run dev >/tmp/log 2>&1 & echo $!'
      <<"n", "p", "m", " ", "r", "u", "n", " ", "d", "e", "v", " ", ">", "/", "t", "m", "p", "/", "l", "o", "g", " ", "2", ">", "&", "1", " ", "&", " ", "e", "c", "h", "o", " ", "$", "!">>,
      \* 'cd app && npm run dev &'
      <<"c", "d", " ", "a", "p", "p", " ", "&", "&", " ", "n", "p", "m", " ", "r", "u", "n", " ", "d", "e", "v", " ", "&">>,
      \* 'NPM RUN DEV &'
      <<"N", "P", "M", " ", "R", "U", "N", " ", "D", "E", "V", " ", "&">>,
      \* 'nohup npm run dev &'
      <<"n", "o", "h", "u", "p", " ", "n", "p", "m", " ", "r", "u", "n", " ", "d", "e", "v", " ", "&">>,
      \* 'npx expo start &'
      <<"n", "p", "x", " ", "e", "x", "p", "o", " ", "s", "t", "a", "r", "t", " ", "&">>,
      \* 'uvicorn app:app --reload &'
      <<"u", "v", "i", "c", "o", "r", "n", " ", "a", "p", "p", ":", "a", "p", "p", " ", "-", "-", "r", "e", "l", "o", "a", "d", " ", "&">>,
      \* 'npm init'
      <<"n", "p", "m", " ", "i", "n", "i", "t">>,
      \* 'npm init --yes'
      <<"n", "p", "m", " ", "i", "n", "i", "t", " ", "-", "-", "y", "e", "s">>,
      \* 'npm init -y'
      <<"n", "p", "m", " ", "i", "n", "i", "t", " ", "-", "y">>,
      \* 'apt-get install -y nodejs && npm init'
      <<"a", "p", "t", "-", "g", "e", "t", " ", "i", "n", "s", "t", "a", "l", "l", " ", "-", "y", " ", "n", "o", "d", "e", "j", "s", " ", "&", "&", " ", "n", "p", "m", " ", "i", "n", "i", "t">>,
      \* 'npm create vite@latest app -- --template react'
      <<"n", "p", "m", " ", "c", "r", "e", "a", "t", "e", " ", "v", "i", "t", "e", "@", "l", "a", "t", "e", "s", "t", " ", "a", "p", "p", " ", "-", "-", " ", "-", "-", "t", "e", "m", "p", "l", "a", "t", "e", " ", "r", "e", "a", "c", "t">>,
      \* 'npm create vite@latest app &'
      <<"n", "p", "m", " ", "c", "r", "e", "a", "t", "e", " ", "v", "i", "t", "e", "@", "l", "a", "t", "e", "s", "t", " ", "a", "p", "p", " ", "&">>,
      \* 'npm create vite@latest app -- --template react &'
      <<"n", "p", "m", " ", "c", "r", "e", "a", "t", "e", " ", "v", "i", "t", "e", "@", "l", "a", "t", "e", "s", "t", " ", "a", "p", "p", " ", "-", "-", " ", "-", "-", "t", "e", "m", "p", "l", "a", "t", "e", " ", "r", "e", "a", "c", "t", " ", "&">>,
      \* 'npm create vite --'
      <<"n", "p", "m", " ", "c", "r", "e", "a", "t", "e", " ", "v", "i", "t", "e", " ", "-", "-">>,
      \* 'pnpm create vite'
      <<"p", "n", "p", "m", " ", "c", "r", "e", "a", "t", "e", " ", "v", "i", "t", "e">>,
      \* 'npm create vite -- --no-interactive --no-rolldown'
      <<"n", "p", "m", " ", "c", "r", "e", "a", "t", "e", " ", "v", "i", "t", "e", " ", "-", "-", " ", "-", "-", "n", "o", "-", "i", "n", "t", "e", "r", "a", "c", "t", "i", "v", "e", " ", "-", "-", "n", "o", "-", "r", "o", "l", "l", "d", "o", "w", "n">>,
      \* 'npx create-next-app app'
      <<"n", "p", "x", " ", "c", "r", "e", "a", "t", "e", "-", "n", "e", "x", "t", "-", "a", "p", "p", " ", "a", "p", "p">>,
      \* 'python manage.py migrate'
      <<"p", "y", "t", "h", "o", "n", " ", "m", "a", "n", "a", "g", "e", ".", "p", "y", " ", "m", "i", "g", "r", "a", "t", "e">>,
      \* 'yes | python manage.py migrate'
      <<"y", "e", "s", " ", "|", " ", "p", "y", "t", "h", "o", "n", " ", "m", "a", "n", "a", "g", "e", ".", "p", "y", " ", "m", "i", "g", "r", "a", "t", "e">>,
      \* 'yes | npx expo start &'
      <<"y", "e", "s", " ", "|", " ", "n", "p", "x", " ", "e", "x", "p", "o", " ", "s", "t", "a", "r", "t", " ", "&">> }

\* the commands A && B, for texts A and B without any & of their own
Chains ==
    LET ChainTexts ==
            { <<"a">>,
              <<"b">>,
              <<"e", "c", "h", "o", " ", "d", "o", "n", "e">>,
              <<"n", "o", "h", "u", "p", " ", "m", "a", "k", "e">> }
    IN  { A \o <<" ", "&", "&", " ">> \o B : A \in ChainTexts, B \in ChainTexts }

\* ShellExecutor.__init__: force_non_interactive, react_compiler_preference
Policies ==
    [force_non_interactive : BOOLEAN, react_compiler_preference : {"use", "no"}]

\* _prepare_command, on the command or on the last result
Prepare ==
    /\ Len(prepared) < MaxRewrites
    /\ prepared' = Append(prepared,
                          PrepareCommand(IF prepared = <<>> THEN raw_command
                                         ELSE prepared[Len(prepared)]))
    /\ UNCHANGED <<evars, fvars, svars, policy, raw_command, detected, request, batch>>

\* _requires_background and _is_backgrounded, on the command
Detect ==
    /\ ~detected.done
    /\ detected' = [requires_background |-> RequiresBackground(raw_command),
                    is_backgrounded |-> IsBackgrounded(raw_command),
                    done |-> TRUE]
    /\ UNCHANGED <<evars, fvars, svars, policy, raw_command, prepared, request, batch>>

NextRewriter == Prepare \/ Detect

\* a command and a policy are chosen; nothing has been rewritten yet
InitRewriter ==
    /\ EditorIdle
    /\ FingerprintIdle
    /\ SupervisorIdle
    /\ policy \in Policies
    /\ raw_command \in Commands \cup Chains
    /\ prepared = <<>>
    /\ detected = NoDetection
    /\ request = <<>>
    /\ batch = IdleBatch

SpecRewriter == InitRewriter /\ [][NextRewriter]_vars

(***************************************************************************)
(* ShellExecutor.__call__: the commands of one request, one after the      *)
(* other.  _execute_with_watchdogs is taken by its outcome: the result it  *)
(* returns, or the exception that leaves it.  Durations are counted in      *)
(* thousandths of a second.                                                *)
(***************************************************************************)
\* DEFAULT_COMMAND_TIMEOUT_SECONDS
DEFAULT_COMMAND_TIMEOUT == 120000

\* commands of a request
BatchCommands ==
    { <<"l", "s">>,
      <<"n", "p", "m", " ", "r", "u", "n", " ", "d", "e", "v">>,
      <<"n", "p", "m", " ", "r", "u", "n", " ", "d", "e", "v", " ", "&">>,
      <<"n", "p", "m", " ", "r", "u", "n", " ", "d", "e", "v", " ", "&", " ", "e", "c", "h", "o", " ", "$", "!">> }

\* the requests a caller may send
Requests ==
    [ commands : UNION { [1..n -> BatchCommands] : n \in 1..MaxBatch },
      timeout_ms : {None, 0 - 1000, 1500} ]

\* bytes.decode("utf-8", errors="ignore"): what is no UTF-8 is dropped
Decode(bytes) ==
    LET Decodable(byte) == byte \notin {"\\xff", "\\xfe"}
    IN  SelectSeq(bytes, Decodable)

\* the output with the bytes of the result taken as they are
CommandOutputUndecoded(prepared_command, result) ==
    [ command |-> prepared_command,
      stdout |-> result.stdout,
      stderr |-> result.stderr,
      outcome |-> [ type |-> IF result.timed_out THEN "timeout" ELSE "exit",
                    exit_code |-> result.exit_code ] ]
\* the output recorded for a command that went through _execute_with_watchdogs
CommandOutput(prepared_command, result) ==
    [ command |-> prepared_command,
      stdout |-> Decode(result.stdout),
      stderr |-> Decode(result.stderr),
      outcome |-> [ type |-> IF result.timed_out THEN "timeout" ELSE "exit",
                    exit_code |-> result.exit_code ] ]

\* a refusal that reports success
RefusalAsSuccess(prepared_command) ==
    [ command |-> prepared_command,
      stdout |-> <<>>,
      stderr |-> <<"Command appears to start a long-running dev server or watcher.">>,
      outcome |-> [type |-> "exit", exit_code |-> 0] ]
\* the output recorded for a dev server that is not backgrounded
Refusal(prepared_command) ==
    [ command |-> prepared_command,
      stdout |-> <<>>,
      stderr |-> <<"Command appears to start a long-running dev server or watcher.">>,
      outcome |-> [type |-> "exit", exit_code |-> 1] ]

\* _spawn_detached_background: its output
DetachedOutput(prepared_command) ==
    [ command |-> prepared_command,
      stdout |-> <<"Detached background command (pid).">>,
      stderr |-> <<>>,
      outcome |-> [type |-> "exit", exit_code |-> 0] ]

\* a default that keeps a configured value that is not positive
DefaultTimeoutNeverDisabled(default_timeout, env_timeout) ==
    LET Digit == [ch \in {"0", "1", "2", "3", "4", "5", "6", "7", "8", "9"} |->
                     CHOOSE n \in 0..9 :
                         <<"0", "1", "2", "3", "4", "5", "6", "7", "8", "9">>[n + 1] = ch]
        RECURSIVE Number(_)
        Number(t) ==
            IF t = <<>> THEN 0
            ELSE 10 * Number(SubSeq(t, 1, Len(t) - 1)) + Digit[t[Len(t)]]
        parses == \A i \in DOMAIN env_timeout : env_timeout[i] \in DOMAIN Digit
        value == IF default_timeout = None /\ env_timeout # <<>> /\ parses
                 THEN 1000 * Number(env_timeout)
                 ELSE default_timeout
    IN  IF value = None THEN DEFAULT_COMMAND_TIMEOUT ELSE value
\* __init__: self.default_timeout, from the default_timeout argument and the
\* text of CODING_AGENT_SHELL_TIMEOUT_SECONDS (empty when unset); float() is
\* taken on texts of digits and raises ValueError on the others of the model
DefaultTimeout(default_timeout, env_timeout) ==
    LET Digit == [ch \in {"0", "1", "2", "3", "4", "5", "6", "7", "8", "9"} |->
                     CHOOSE n \in 0..9 :
                         <<"0", "1", "2", "3", "4", "5", "6", "7", "8", "9">>[n + 1] = ch]
        RECURSIVE Number(_)
        Number(t) ==
            IF t = <<>> THEN 0
            ELSE 10 * Number(SubSeq(t, 1, Len(t) - 1)) + Digit[t[Len(t)]]
        parses == \A i \in DOMAIN env_timeout : env_timeout[i] \in DOMAIN Digit
        value == IF default_timeout = None /\ env_timeout # <<>> /\ parses
                 THEN 1000 * Number(env_timeout)
                 ELSE default_timeout
    IN  IF value = None THEN DEFAULT_COMMAND_TIMEOUT
        ELSE IF value <= 0 THEN None
        ELSE value

\* timeout = None / max(action.timeout_ms / 1000, 0) / self.default_timeout
HardTimeout(timeout_ms, default_timeout) ==
    IF timeout_ms # None THEN (IF timeout_ms > 0 THEN timeout_ms ELSE 0)
    ELSE default_timeout

\* the results _monitor_process can build, under a hard timeout or without
RunResults(timeout) ==
    LET Captured == {<<>>} \cup {<<OutputBytes[n]>> : n \in 1..2}
        Result(code, reason, stdout, stderr) ==
            [ stdout |-> stdout, stderr |-> Annotated(stderr, reason),
              exit_code |-> code, timed_out |-> reason # "none",
              timeout_reason |-> reason ]
    IN  {Result(code, "none", out, err) :
             code \in {0, 1}, out \in Captured, err \in Captured}
            \cup {Result(Killed, "inactivity", <<>>, <<>>)}
            \cup (IF timeout = None THEN {}
                  ELSE {Result(Killed, "duration", out, <<>>) : out \in Captured}
                       \cup {Result(None, "duration_background", <<>>, err) :
                                 err \in Captured})

\* for command in action.commands: up to the await of the iteration
NextCommand ==
    /\ batch.pc = "loop"
    /\ batch.index <= Len(request.commands)
    /\ \E prepared_command \in {PrepareCommand(request.commands[batch.index])} :
       \E requires_background \in {RequiresBackground(prepared_command)} :
           IF requires_background
           THEN IF ~IsBackgrounded(prepared_command)
                THEN batch' = [batch EXCEPT
                         !.outputs = Append(@, Refusal(prepared_command)),
                         !.index = @ + 1]
                ELSE batch' = [batch EXCEPT
                         !.outputs = Append(@, DetachedOutput(prepared_command)),
                         !.spawned = Append(@, [index |-> batch.index,
                                                 detached |-> TRUE]),
                         !.background = Append(@, [index |-> batch.index,
                                                    returncode |-> None,
                                                    reaper |-> "pending"]),
                         !.index = @ + 1]
           ELSE batch' = [batch EXCEPT
                    !.pc = "execute",
                    !.prepared_command = prepared_command,
                    !.timeout = HardTimeout(request.timeout_ms, batch.default_timeout),
                    !.spawned = Append(@, [index |-> batch.index,
                                            detached |-> FALSE])]
    /\ UNCHANGED <<evars, fvars, svars, policy, raw_command, prepared, detected, request>>

\* _execute_with_watchdogs returns: the output is recorded, and a timeout
\* ends the loop
ExecuteReturns(result) ==
    /\ batch.pc = "execute"
    /\ batch' = [batch EXCEPT
           !.outputs = Append(@, CommandOutput(batch.prepared_command, result)),
           !.pc = IF result.timed_out THEN "returned" ELSE "loop",
           !.index = IF result.timed_out THEN @ ELSE @ + 1]
    /\ UNCHANGED <<evars, fvars, svars, policy, raw_command, prepared, detected, request>>

\* proc.kill() raises in _monitor_process: the exception leaves __call__
ExecuteRaises ==
    /\ batch.pc = "execute"
    /\ batch' = [batch EXCEPT !.pc = "raised"]
    /\ UNCHANGED <<evars, fvars, svars, policy, raw_command, prepared, detected, request>>

\* a process started by _spawn_detached_background exits, well or badly
DetachedExits(k, code) ==
    /\ k \in DOMAIN batch.background
    /\ batch.background[k].returncode = None
    /\ batch' = [batch EXCEPT !.background[k].returncode = code]
    /\ UNCHANGED <<evars, fvars, svars, policy, raw_command, prepared, detected, request>>

\* a reaper that ends the batch when its process has exited
ReapDetachedEndsBatch(k) ==
    /\ k \in DOMAIN batch.background
    /\ batch.background[k].reaper = "pending"
    /\ batch.background[k].returncode # None
    /\ batch' = [batch EXCEPT !.background[k].reaper = "done", !.pc = "returned"]
    /\ UNCHANGED <<evars, fvars, svars, policy, raw_command, prepared, detected, request>>
\* _reap_background_process of such a process: await proc.wait(), log
ReapDetached(k) ==
    /\ k \in DOMAIN batch.background
    /\ batch.background[k].reaper = "pending"
    /\ batch.background[k].returncode # None
    /\ batch' = [batch EXCEPT !.background[k].reaper = "done"]
    /\ UNCHANGED <<evars, fvars, svars, policy, raw_command, prepared, detected, request>>

\* return ShellResult(output=outputs, ...)
ReturnOutputs ==
    /\ batch.pc = "loop"
    /\ batch.index > Len(request.commands)
    /\ batch' = [batch EXCEPT !.pc = "returned"]
    /\ UNCHANGED <<evars, fvars, svars, policy, raw_command, prepared, detected, request>>

NextBatch ==
    \/ NextCommand
    \/ \E result \in RunResults(batch.timeout) : ExecuteReturns(result)
    \/ ExecuteRaises
    \/ ReturnOutputs
    \/ \E k \in 1..MaxBatch, code \in {0, 1} : DetachedExits(k, code)
    \/ \E k \in 1..MaxBatch : ReapDetached(k)

\* a request arrives at an executor
InitBatch ==
    /\ EditorIdle
    /\ FingerprintIdle
    /\ SupervisorIdle
    /\ policy \in Policies
    /\ request \in Requests
    /\ \E configured \in
              {[default_timeout |-> None, env_timeout |-> <<>>],
               [default_timeout |-> None, env_timeout |-> <<"0">>],
               [default_timeout |-> None, env_timeout |-> <<"4", "5">>],
               [default_timeout |-> None, env_timeout |-> <<"x">>],
               [default_timeout |-> 0, env_timeout |-> <<"4", "5">>]} :
           batch = [IdleBatch EXCEPT
                       !.pc = "loop", !.index = 1,
                       !.configured = configured,
                       !.default_timeout =
                           DefaultTimeout(configured.default_timeout,
                                          configured.env_timeout)]
    /\ raw_command = <<>>
    /\ prepared = <<>>
    /\ detected = NoDetection

SpecBatch == InitBatch /\ [][NextBatch]_vars

(***************************************************************************)
(* Properties of the editor.                                               *)
(***************************************************************************)
\* p is the workspace root or a descendant of it
InWorkspace(p) ==
    p = Root \/ (Len(p) > Len(Root) /\ SubSeq(p, 1, Len(Root)) = Root)

\* what the caller's path resolved to when the call started
ResolvedAtCall(c) == ResolveTarget(call[c].pre.fs, call[c].op.path)

\* the paths at which two filesystems differ
Changed(f, g) ==
    { p \in DOMAIN f \cup DOMAIN g : ~(Exists(f, p) /\ Exists(g, p) /\ f[p] = g[p]) }

\* the gate let the call of c through (the ungated editor has no gate)
PassedGate(c) == call[c].granted \/ editor = "apply_patch"

\* C1: nothing outside the workspace root is ever created, written or removed;
\* a call whose path canonicalises outside the root ends with the
\* "outside workspace" error, and a call that succeeds resolved to the root
\* or a descendant and changed nothing but the root and its descendants.
C1_Confinement ==
    /\ \A p \in Changed(fs, InitFS) : InWorkspace(p)
    /\ \A c \in Callers : call[c].pc = "done" =>
          /\ ~InWorkspace(ResolvedAtCall(c)) => call[c].result = OutsideWorkspace
          /\ call[c].result = "ok" =>
                /\ InWorkspace(call[c].target)
                /\ \A p \in Changed(fs, call[c].pre.fs) : InWorkspace(p)

\* a path through the symbolic link that leaves the workspace was refused
C1_Witness ==
    \E c \in Callers :
        /\ call[c].pc = "done"
        /\ call[c].op.path.comps = <<"l", "s">>
        /\ call[c].result = OutsideWorkspace

\* C2: during a call the filesystem differs from what it was when the call
\* started only after the approval gate has granted the operation in that
\* call.
C2_MutationOnlyAfterGrant ==
    \A c \in Callers :
        call[c].pc # "idle" /\ fs # call[c].pre.fs => call[c].granted

\* the decision typed at the prompt has been read
Answered(c) ==
    call[c].prompted /\ call[c].pc \notin {"idle", "relative_path",
                                            "require_approval", "input"}

YesWords == { <<"y">>, <<"y", "e", "s">> }

Denied(c) ==
    /\ call[c].pc = "done"
    /\ call[c].result = Rejected
    /\ fs = call[c].pre.fs
    /\ approved = call[c].pre.approved

\* C3 as stated: every decision other than yes/y, compared without regard to
\* case, ends the call with the rejection error and leaves the filesystem and
\* the approval set as they were.
C3_AnyOtherDecisionDenied ==
    \A c \in Callers :
        Answered(c) /\ Lower(call[c].answer) \notin YesWords => Denied(c)

\* C3, amended: every decision that is not yes/y once surrounding whitespace
\* is stripped and case is folded ends the call with the rejection error and
\* leaves the filesystem and the approval set as they were.
C3_OtherDecisionDenied ==
    \A c \in Callers :
        Answered(c) /\ Lower(Strip(call[c].answer)) \notin YesWords => Denied(c)

\* a create whose parent directory is missing was denied
C3_Witness ==
    \E c \in Callers :
        /\ Answered(c)
        /\ call[c].answer = <<"n">>
        /\ call[c].op.kind = "create_file"
        /\ call[c].op.path.comps = <<"n", "m">>
        /\ Denied(c)

\* C4: a call whose (kind, relativized path, diff) has been granted before on
\* this editor never reaches the prompt.
C4_GrantedNotPromptedAgain ==
    \A c \in Callers : call[c].pc = "input" => Triple(c) \notin grantedTriples

\* a retry of an operation that was granted by an explicit yes and then failed
\* passes the gate without a prompt
C4_Witness ==
    \E c \in Callers :
        /\ editor = "coding_agent" /\ ~auto_approve
        /\ call[c].pc = "resolve"
        /\ call[c].granted /\ ~call[c].prompted
        /\ Triple(c) \in failedGranted

\* C5: two triples have the same fingerprint exactly when they are the same
\* triple.
C5_FingerprintSeparates ==
    digestA # NoDigest => ((digestA = digestB) <=> (tripleA = tripleB))

\* two distinct triples of the same kind whose path and diff concatenate to
\* the same text got different fingerprints
C5_Witness ==
    /\ digestA # NoDigest
    /\ tripleA # tripleB
    /\ tripleA[1] = tripleB[1]
    /\ tripleA[2] \o tripleA[3] = tripleB[2] \o tripleB[3]
    /\ digestA # digestB

\* C6: a delete that passed the gate, on a path inside the workspace at which
\* nothing exists, succeeds and leaves the filesystem as it was.
C6_DeleteAbsentSucceeds ==
    \A c \in Callers :
        /\ call[c].pc = "done" /\ call[c].op.kind = "delete_file"
        /\ PassedGate(c)
        /\ InWorkspace(ResolvedAtCall(c))
        /\ ~Exists(call[c].pre.fs, ResolvedAtCall(c))
        => call[c].result = "ok" /\ fs = call[c].pre.fs

UpdateOfAbsent(c) ==
    /\ call[c].pc = "done" /\ call[c].op.kind = "update_file"
    /\ PassedGate(c)
    /\ InWorkspace(ResolvedAtCall(c))
    /\ ~Exists(call[c].pre.fs, ResolvedAtCall(c))

C8_AtMostOnePrompt ==
    \A c1, c2 \in Callers :
        /\ c1 # c2
        /\ call[c1].pc # "idle" /\ call[c2].pc # "idle"
        /\ call[c1].op = call[c2].op
        => ~(call[c1].prompted /\ call[c2].prompted)

(***************************************************************************)
(* Properties of the supervising call.                                     *)
(***************************************************************************)
TimeoutInEffect ==
    /\ config.timeout # None \/ config.inactivity_timeout # None
    /\ ~config.background_on_timeout

\* the supervising call is suspended and neither the event loop nor the
\* passing of time can resume it
Blocked ==
    /\ mon.pc \notin {"idle", "returned", "raised"}
    /\ ~TimerPending
    /\ ~ENABLED LoopStep

\* C9: with a hard timeout or an inactivity timeout in effect and
\* background-on-timeout off, the supervising call is never left blocked:
\* until it returns its result, the event loop or a pending timer can always
\* resume it, whatever the process and its descendants do.
C9_CallAlwaysReturns ==
    TimeoutInEffect => ~Blocked

\* the terminal state chosen by the flags of _monitor_process
TerminalState ==
    IF mon.background_detached THEN "BackgroundDetached"
    ELSE IF mon.inactivity_triggered THEN "Inactive"
    ELSE IF mon.timed_out THEN "TimedOut"
    ELSE "Completed"

\* C10: the terminal state is chosen once, by the first-completion race.
\* Until the race is decided no flag is set and nothing is killed; afterwards
\* the flags never show both a duration and an inactivity timeout, a race
\* that the natural exit took part in ends Completed with no kill, kill is
\* issued at most once and only in TimedOut or Inactive, and the returned
\* result reports exactly the chosen state.
C10_OneTerminalState ==
    /\ mon.pc \in {"idle", "race"} <=> mon.done = {}
    /\ mon.done = {} => TerminalState = "Completed" /\ proc.kills = 0
    /\ ~(mon.timed_out /\ mon.inactivity_triggered)
    /\ mon.background_detached => mon.timed_out /\ config.background_on_timeout
    /\ "wait_task" \in mon.done => TerminalState = "Completed"
    /\ proc.kills <= 1
    /\ proc.kills = 1 <=> TerminalState \in {"TimedOut", "Inactive"}
    /\ mon.pc = "returned" =>
          /\ mon.result.timed_out <=> TerminalState # "Completed"
          /\ mon.result.timeout_reason =
                CASE TerminalState = "Completed" -> "none"
                  [] TerminalState = "TimedOut" -> "duration"
                  [] TerminalState = "Inactive" -> "inactivity"
                  [] TerminalState = "BackgroundDetached" -> "duration_background"

\* the exit and both timers had completed when the race was decided, and the
\* result reports a plain exit
C10_Witness ==
    /\ mon.pc = "returned"
    /\ mon.done = RaceTasks
    /\ ~mon.result.timed_out
    /\ proc.kills = 0

(***************************************************************************)
(* Properties of the command rewriter.                                     *)
(***************************************************************************)

\* C17: no command A && B, A and B without any & of their own, is detected
\* as backgrounded
C17_ChainNeverBackgrounded ==
    (detected.done /\ raw_command \in Chains) => ~detected.is_backgrounded

\* C18: rewriting an already rewritten command returns it unchanged, for
\* every command and every policy
C18_RewriteIdempotent ==
    Len(prepared) >= 2 => prepared[2] = prepared[1]

\* where t stands in s as a word of its own
WordsAt(s, t) ==
    { i \in Occurrences(s, t) :
        /\ i = 1 \/ IsSpace(s[i - 1])
        /\ i + Len(t) > Len(s) \/ IsSpace(s[i + Len(t)]) }

\* a --yes or a -y among the words of the command
CarriesSkipFlag(s) ==
    WordsAt(Lower(s), <<"-", "-", "y", "e", "s">>) # {} \/ WordsAt(Lower(s), <<"-", "y">>) # {}

\* one of the commands chained by && is a scaffolding command without the flag
ScaffoldingWithoutFlag(cmd) ==
    LET clauses == Split(cmd, <<"&", "&">>)
    IN  \E k \in DOMAIN clauses :
            /\ SearchAny(PATTERNS.YES_FLAG_PATTERNS, Lower(clauses[k]))
            /\ ~CarriesSkipFlag(clauses[k])

\* C19: a scaffolding command without skip-confirmation flag contains --yes
\* exactly once after being rewritten, and after being rewritten twice
C19_YesExactlyOnce ==
    (policy.force_non_interactive /\ ScaffoldingWithoutFlag(raw_command))
        => \A k \in DOMAIN prepared :
               Cardinality(Occurrences(prepared[k], <<"-", "-", "y", "e", "s">>)) = 1

\* the command without the " &" that ends it
WithoutBackgroundSuffix(s) ==
    IF EndsWith(s, <<" ", "&">>) THEN SubSeq(s, 1, Len(s) - 2) ELSE s

\* the arguments after the first " -- ", or the whole command without one
TrailingSection(s) ==
    LET base == WithoutBackgroundSuffix(s)
        sep == <<" ", "-", "-", " ">>
    IN  IF Contains(base, sep)
        THEN SubSeq(base, Find(base, sep) + 3, Len(base))
        ELSE base

\* C20: the rewritten create-vite command has --no-interactive and
\* --no-rolldown exactly once each in its trailing argument section, the
\* --yes of rule 1 before the " -- " separator, and the " &" of the input at
\* its very end
C20_ViteFlagsInTrailingSection ==
    (/\ policy.force_non_interactive
     /\ SearchAny(PATTERNS.VITE_CREATE_PATTERNS, Lower(raw_command))
     /\ prepared # <<>>)
        => LET rewritten == prepared[1]
               sep == <<" ", "-", "-", " ">>
           IN  /\ Cardinality(WordsAt(TrailingSection(rewritten), <<"-", "-", "n", "o", "-", "i", "n", "t", "e", "r", "a", "c", "t", "i", "v", "e">>)) = 1
               /\ Cardinality(WordsAt(TrailingSection(rewritten), <<"-", "-", "n", "o", "-", "r", "o", "l", "l", "d", "o", "w", "n">>)) = 1
               /\ (~Contains(raw_command, <<"-", "-", "y", "e", "s">>) /\ Contains(rewritten, sep))
                      => \A i \in Occurrences(rewritten, <<"-", "-", "y", "e", "s">>) : i < Find(rewritten, sep)
               /\ EndsWith(RStrip(raw_command), <<"&">>) => EndsWith(rewritten, <<" ", "&">>)

(***************************************************************************)
(* Properties of the batch of commands.                                    *)
(***************************************************************************)

\* the call has ended: with its list of outputs, or with an exception
BatchEnded == batch.pc \in {"returned", "raised"}

\* C11: the call returns one output per processed command, in input order,
\* for a prefix of the list; the prefix is shorter than the list only when
\* its last output is a timeout, only the last output can be a timeout, and
\* no command behind the prefix was spawned
C11_BatchReturnsPrefix ==
    BatchEnded =>
        LET outputs == batch.outputs
            n == Len(outputs)
        IN  /\ batch.pc = "returned"
            /\ n <= Len(request.commands)
            /\ \A k \in 1..n : outputs[k].command = PrepareCommand(request.commands[k])
            /\ n < Len(request.commands)
                   => n > 0 /\ outputs[n].outcome.type = "timeout"
            /\ \A k \in 1..n : outputs[k].outcome.type = "timeout" => k = n
            /\ \A k \in DOMAIN batch.spawned : batch.spawned[k].index <= n

\* a detached process exits, or its reaper takes note of the exit
DetachedProcessMoves ==
    \E k \in DOMAIN batch.background :
        /\ k \in DOMAIN batch'.background
        /\ batch'.background[k] # batch.background[k]

\* the command the loop is about to handle is rewritten to a dev server that
\* is not backgrounded
AtUnbackgroundedServer ==
    /\ batch.pc = "loop"
    /\ batch.index <= Len(request.commands)
    /\ \E prepared_command \in {PrepareCommand(request.commands[batch.index])} :
           RequiresBackground(prepared_command) /\ ~IsBackgrounded(prepared_command)

\* a failure without output of the command, with a message on stderr
IsRefusal(output) ==
    /\ output.outcome.type = "exit"
    /\ output.outcome.exit_code \notin {0, None}
    /\ output.stdout = <<>>
    /\ output.stderr # <<>>

\* C12: a command rewritten to a dev server that is not backgrounded is not
\* spawned; exactly one failure output is recorded for it and the loop goes
\* on to the next command
C12_UnbackgroundedServerRefused ==
    [][AtUnbackgroundedServer /\ ~DetachedProcessMoves =>
          /\ Len(batch'.outputs) = Len(batch.outputs) + 1
          /\ SubSeq(batch'.outputs, 1, Len(batch.outputs)) = batch.outputs
          /\ IsRefusal(batch'.outputs[Len(batch'.outputs)])
          /\ batch'.spawned = batch.spawned
          /\ batch'.pc = "loop"
          /\ batch'.index = batch.index + 1]_vars

\* a refusal has been recorded and the next command has been handled too
C12_Witness ==
    /\ Len(batch.outputs) >= 2
    /\ IsRefusal(batch.outputs[1])
    /\ batch.spawned # <<>>
    /\ batch.spawned[1].index = 2

\* the command the loop is about to handle names a dev server and ends in a
\* bare " &" or in "& echo $!", and the policy is the default one
AtBackgroundedServer ==
    /\ batch.pc = "loop"
    /\ batch.index <= Len(request.commands)
    /\ policy.force_non_interactive
    /\ LET command == request.commands[batch.index]
       IN  /\ SearchAny(PATTERNS.DEV_SERVER_PATTERNS, Lower(command))
           /\ \/ EndsWith(command, <<" ", "&">>)
              \/ EndsWith(command, <<"&", " ", "e", "c", "h", "o", " ", "$", "!">>)

\* C13: a dev-server command that the caller has backgrounded is handed to
\* the detached spawn, and is never answered with the refusal
C13_BackgroundedServerDetached ==
    [][AtBackgroundedServer /\ ~DetachedProcessMoves =>
          /\ Len(batch'.outputs) = Len(batch.outputs) + 1
          /\ ~IsRefusal(batch'.outputs[Len(batch'.outputs)])
          /\ batch'.spawned = Append(batch.spawned,
                                     [index |-> batch.index, detached |-> TRUE])]_vars

\* the call has returned after detaching the process on the duration timeout
ReturnedDetached == mon.pc = "returned" /\ mon.background_detached

\* the process is not held in a write that nobody will read
CanReachExit ==
    proc.alive => \/ proc.blocked = "none"
                  \/ task[PumpTask(proc.blocked)] = "pending"

\* C14: with background-on-timeout the call returns timeout /
\* duration_background without killing the process, and the process stays
\* able to run on to its own exit
C14_DetachedProcessRunsOn ==
    ReturnedDetached =>
        /\ mon.result.timed_out
        /\ mon.result.timeout_reason = "duration_background"
        /\ proc.kills = 0
        /\ CanReachExit

\* C15: once the inactivity poller has found the process silent for longer
\* than the threshold and has won the race (no exit and no hard timeout seen
\* at that wakeup), the process is killed and the call comes back with a
\* result timeout / inactivity whose stderr ends with the message
C15_SilentProcessKilled ==
    mon.inactivity_triggered =>
        /\ mon.pc # "raised"
        /\ ~Blocked
        /\ proc.kills = 1
        /\ ~proc.alive
        /\ mon.pc = "returned" =>
               /\ mon.result.timed_out
               /\ mon.result.timeout_reason = "inactivity"
               /\ mon.result.stderr = Annotated(written.stderr, "inactivity")

\* the exit of the process was among the completed tasks when the race was
\* decided
NaturalExitWon == "wait_task" \in mon.done

\* the command output __call__ records for the result of the supervising call
RecordedOutput == CommandOutput(batch.prepared_command, mon.result)

\* stderr ends with the message of a timeout
AnnotationPresent(stderr) ==
    /\ stderr # <<>>
    /\ stderr[Len(stderr)] \in {"duration", "duration_background", "inactivity"}

\* C16 as stated: after a natural exit the recorded stdout and stderr are
\* exactly what the process wrote
C16_OutputExactlyAsWritten ==
    (mon.pc = "returned" /\ NaturalExitWon) =>
        /\ RecordedOutput.stdout = written.stdout
        /\ RecordedOutput.stderr = written.stderr

\* C16: after a natural exit the result is not timed out, has no timeout
\* reason, the exit code of the process and the bytes it wrote, and the
\* recorded output is an exit with these bytes decoded, those that are no
\* UTF-8 dropped; over all results the annotation is on stderr exactly when
\* the outcome is a timeout, exactly when there is a timeout reason
C16_ExitResultDecoded ==
    mon.pc = "returned" =>
        /\ NaturalExitWon =>
               /\ ~mon.result.timed_out
               /\ mon.result.timeout_reason = "none"
               /\ mon.result.exit_code = proc.status
               /\ mon.result.stdout = written.stdout
               /\ mon.result.stderr = written.stderr
               /\ RecordedOutput.outcome = [type |-> "exit", exit_code |-> proc.status]
               /\ RecordedOutput.stdout = Decode(written.stdout)
               /\ RecordedOutput.stderr = Decode(written.stderr)
        /\ AnnotationPresent(RecordedOutput.stderr)
               <=> RecordedOutput.outcome.type = "timeout"
        /\ RecordedOutput.outcome.type = "timeout"
               <=> mon.result.timeout_reason # "none"

\* a process has written bytes that are no UTF-8 and has exited by itself
C16_Witness ==
    /\ mon.pc = "returned"
    /\ NaturalExitWon
    /\ written.stdout # <<>>
    /\ Decode(written.stdout) # written.stdout
    /\ RecordedOutput.outcome = [type |-> "exit", exit_code |-> 1]

(***************************************************************************)
(* Properties of the auto-affirm pipe.                                     *)
(***************************************************************************)
\* s.startswith(t)
StartsWith(s, t) == Len(t) <= Len(s) /\ SubSeq(s, 1, Len(t)) = t

\* the auto-affirm pipe
YesPipe == <<"y", "e", "s", " ", "|", " ">>

\* how often the pipe stands in a command
YesPipes(s) == Cardinality(Occurrences(s, YesPipe))

\* the command matches a "will prompt y/n on stdin" pattern
MatchesAutoConfirm(cmd) ==
    SearchAny(PATTERNS.AUTO_CONFIRM_PATTERNS, Lower(Strip(cmd)))

\* the detaching idiom up to the text it hands to sh -c
DetachedPrefix == <<"(", "t", "r", "a", "p", " ", "'", "'", " ", "H", "U", "P", ";", " ", "s", "e", "t", "s", "i", "d", " ", "s", "h", " ", "-", "c", " ", "'">>

\* a command that starts with the pipe has as many pipes after the rewrite
NoSecondPipe ==
    StartsWith(Strip(raw_command), YesPipe)
        => YesPipes(prepared[1]) = YesPipes(raw_command)

\* C21 as stated: with forceNonInteractive on, the rewrite of a command that
\* matches a "will prompt y/n on stdin" pattern starts with "yes | ", and a
\* command that already starts with the pipe gets no second one
C21_StartsWithYesPipe ==
    (policy.force_non_interactive /\ prepared # <<>>) =>
        /\ MatchesAutoConfirm(raw_command) => StartsWith(prepared[1], YesPipe)
        /\ NoSecondPipe

\* C21, amended: with forceNonInteractive on, the rewrite of such a command
\* starts with "yes | ", or, when the whole command is a backgrounded dev
\* server that is wrapped in the detaching idiom, the text handed to sh -c
\* starts with it; a command that already starts with the pipe gets no second
\* one
C21_CarriesYesPipe ==
    (policy.force_non_interactive /\ prepared # <<>>) =>
        /\ MatchesAutoConfirm(raw_command) =>
               \/ StartsWith(prepared[1], YesPipe)
               \/ StartsWith(prepared[1], DetachedPrefix \o YesPipe)
        /\ NoSecondPipe

\* a backgrounded dev server that will prompt came with the pipe and was
\* wrapped with this one pipe inside the idiom
C21_Witness ==
    /\ policy.force_non_interactive
    /\ prepared # <<>>
    /\ MatchesAutoConfirm(raw_command)
    /\ StartsWith(raw_command, YesPipe)
    /\ StartsWith(prepared[1], DetachedPrefix \o YesPipe)
    /\ YesPipes(prepared[1]) = 1

(***************************************************************************)
(* Properties of the hard timeout.                                         *)
(***************************************************************************)
\* the executor was built without a default_timeout argument and without the
\* environment variable
NothingConfigured ==
    batch.configured = [default_timeout |-> None, env_timeout |-> <<>>]

\* the value configured by the argument or, without one, by the environment
\* variable is zero or negative
ConfiguredNonPositive ==
    \/ batch.configured.default_timeout # None /\ batch.configured.default_timeout <= 0
    \/ batch.configured.default_timeout = None /\ batch.configured.env_timeout = <<"0">>

\* the request gives no timeout and the configured value disables the default
HardTimeoutDisabled == request.timeout_ms = None /\ ConfiguredNonPositive

\* the recorded output reports a duration timeout
DurationTimeout(output) ==
    /\ output.outcome.type = "timeout"
    /\ output.stderr # <<>>
    /\ output.stderr[Len(output.stderr)] \in {"duration", "duration_background"}

\* what C22 says of the default, and of a default that is disabled
DefaultAsConfigured ==
    /\ (batch.pc = "execute" /\ request.timeout_ms = None) =>
          /\ NothingConfigured => batch.timeout = DEFAULT_COMMAND_TIMEOUT
          /\ ConfiguredNonPositive => batch.timeout = None
          /\ batch.configured = [default_timeout |-> None, env_timeout |-> <<"4", "5">>]
                 => batch.timeout = 45000
    /\ HardTimeoutDisabled =>
          \A k \in DOMAIN batch.outputs : ~DurationTimeout(batch.outputs[k])

\* C22 as stated: the hard timeout of a supervised command is the request's
\* timeout_ms / 1000 whenever the request gives one, and otherwise the
\* configured default, 120 seconds when nothing is configured; a configured
\* value that is not positive disables it, and no duration timeout occurs
C22_RequestTimeoutDivided ==
    /\ (batch.pc = "execute" /\ request.timeout_ms # None) =>
          batch.timeout = request.timeout_ms
    /\ DefaultAsConfigured

\* C22, amended: the hard timeout is the request's timeout_ms / 1000, raised
\* to zero when it is negative, whenever the request gives one; the rest as
\* stated
C22_RequestTimeoutClamped ==
    /\ (batch.pc = "execute" /\ request.timeout_ms # None) =>
          batch.timeout = IF request.timeout_ms < 0 THEN 0 ELSE request.timeout_ms
    /\ DefaultAsConfigured

\* under a default of zero a command without request timeout ran to its exit
\* and the next command is being supervised without hard timeout
C22_Witness ==
    /\ HardTimeoutDisabled
    /\ batch.configured.default_timeout = 0
    /\ batch.pc = "execute"
    /\ batch.timeout = None
    /\ Len(batch.outputs) = 1
    /\ batch.outputs[1].outcome = [type |-> "exit", exit_code |-> 0]
    /\ batch.spawned[1] = [index |-> 1, detached |-> FALSE]

(***************************************************************************)
(* Properties of the tasks of the supervising call.                        *)
(***************************************************************************)
\* exit-wait, duration timer, inactivity poller, stdout pump, stderr pump
Activities == Tasks \ {"reaper"}

\* C23: when the supervising call returns without detaching, none of its five
\* activities is pending: the exit-wait and the pumps have completed, each
\* timer that was created has completed or was cancelled, and there is no
\* reaper; when it returns after detaching none of the five is pending
\* either, so that nothing but the reaper is left running for the process
C23_NoPendingActivity ==
    mon.pc = "returned" =>
        /\ \A t \in Activities : task[t] # "pending"
        /\ ~mon.background_detached =>
              /\ \A t \in {"wait_task", "stdout_task", "stderr_task"} :
                     task[t] = "done"
              /\ task["timeout_task"] = "none" <=> config.timeout = None
              /\ task["inactivity_task"] = "none" <=> config.inactivity_timeout = None
              /\ task["reaper"] = "none"
        /\ mon.background_detached =>
              /\ task["wait_task"] = "cancelled" <=> task["reaper"] # "none"
              /\ task["wait_task"] \in {"cancelled", "done"}

\* the call has returned after detaching: both pumps and the poller were
\* cancelled and the reaper is waiting for the process
C23_Witness ==
    /\ mon.pc = "returned"
    /\ mon.background_detached
    /\ task["stdout_task"] = "cancelled"
    /\ task["stderr_task"] = "cancelled"
    /\ task["inactivity_task"] = "cancelled"
    /\ task["wait_task"] = "cancelled"
    /\ task["reaper"] = "pending"
    /\ proc.alive

\* the call has returned the result of a process it killed
ReturnedKilled ==
    mon.pc = "returned" /\ TerminalState \in {"TimedOut", "Inactive"}

\* C24: on TimedOut and Inactive the result is built only after both pumps
\* have reached end-of-input; its stdout is every byte the process wrote to
\* stdout and its stderr every byte it wrote to stderr, followed by the
\* annotation of the timeout and nothing else
C24_KilledOutputComplete ==
    ReturnedKilled =>
        /\ task["stdout_task"] = "done" /\ task["stderr_task"] = "done"
        /\ \A s \in Streams : AtEof(s)
        /\ mon.result.stdout = written.stdout
        /\ mon.result.stderr =
               Annotated(written.stderr,
                         IF TerminalState = "TimedOut" THEN "duration" ELSE "inactivity")

\* a process that had written to stderr was killed on the hard timeout and
\* its bytes are in the result, before the annotation
C24_Witness ==
    /\ ReturnedKilled
    /\ mon.timed_out
    /\ written.stderr # <<>>
    /\ mon.result.stderr = written.stderr \o <<"\n", "duration">>
    /\ mon.result.stdout = <<>>

\* C25: on BackgroundDetached the result has an empty stdout, the stderr
\* bytes captured up to the detach followed by the "still running in the
\* background" annotation, the timed-out flag, and no exit code, however the
\* exit of the process interleaves with the steps of the detach
C25_DetachedResult ==
    ReturnedDetached =>
        /\ mon.result.stdout = <<>>
        /\ mon.result.stderr = Annotated(chunks.stderr, "duration_background")
        /\ mon.result.timed_out
        /\ mon.result.exit_code = None

(***************************************************************************)
(* Properties of the detection of the background operator.                 *)
(***************************************************************************)
\* what follows position idx is nothing, whitespace, or an echo $! between
\* whitespace
OnlySuffixAfter(s, idx) ==
    Strip(SubSeq(s, idx + 1, Len(s))) \in { <<>>, <<"e", "c", "h", "o", " ", "$", "!">> }

\* an & that is no half of &&, no part of a redirection, and ends the command
\* once a trailing echo $! is ignored
BackgroundOperatorAt(s, idx) ==
    /\ s[idx] = "&"
    /\ idx > 1 => s[idx - 1] \notin {"&", ">"}
    /\ idx < Len(s) => s[idx + 1] # ">"
    /\ OnlySuffixAfter(s, idx)

\* C26: the detection returns true for a command exactly when the command
\* contains an & that is not preceded by & or >, is not followed by >, and is
\* the last character or followed only by whitespace once a trailing
\* echo $! is ignored
C26_DetectedExactlyOperator ==
    detected.done =>
        (detected.is_backgrounded
            <=> \E idx \in DOMAIN raw_command : BackgroundOperatorAt(raw_command, idx))

(***************************************************************************)
(* Properties of the detached spawn.                                       *)
(***************************************************************************)
\* the command the loop is about to handle is rewritten to a dev server that
\* is backgrounded: it goes to _spawn_detached_background
AtDetachedSpawn ==
    /\ batch.pc = "loop"
    /\ batch.index <= Len(request.commands)
    /\ \E prepared_command \in {PrepareCommand(request.commands[batch.index])} :
           RequiresBackground(prepared_command) /\ IsBackgrounded(prepared_command)

\* a success that reports the pid of the spawned process
IsSpawnReport(output) ==
    /\ output.outcome = [type |-> "exit", exit_code |-> 0]
    /\ output.stdout = <<"Detached background command (pid).">>
    /\ output.stderr = <<>>

\* the reapers registered for the process of command number index
ReapersOf(b, index) == {k \in DOMAIN b.background : b.background[k].index = index}

\* C27: the detached spawn records a success with the pid while the process
\* is still running, with no hard timeout taken for it, and the loop goes on
\* to the next command; exactly one reaper is registered for each process
\* spawned this way; the later exit of the process, with whatever code,
\* changes no recorded output and leaves the position of the batch as it is
C27_DetachedSpawnReturnsAtOnce ==
    [][/\ AtDetachedSpawn /\ ~DetachedProcessMoves =>
             /\ batch'.outputs = Append(batch.outputs, batch'.outputs[Len(batch'.outputs)])
             /\ IsSpawnReport(batch'.outputs[Len(batch'.outputs)])
             /\ batch'.background =
                    Append(batch.background,
                           [index |-> batch.index, returncode |-> None,
                            reaper |-> "pending"])
             /\ batch'.timeout = batch.timeout
             /\ batch'.pc = "loop"
             /\ batch'.index = batch.index + 1
       /\ \A k \in DOMAIN batch'.spawned :
             Cardinality(ReapersOf(batch', batch'.spawned[k].index)) =
                 IF batch'.spawned[k].detached THEN 1 ELSE 0
       /\ DetachedProcessMoves =>
             /\ batch'.outputs = batch.outputs
             /\ batch'.pc = batch.pc
             /\ batch'.index = batch.index
             /\ batch'.spawned = batch.spawned]_vars

\* a detached process has failed and its reaper has taken note, the report of
\* its spawn is the first output, and the next command of the batch has been
\* handled since
C27_Witness ==
    /\ Len(batch.outputs) >= 2
    /\ IsSpawnReport(batch.outputs[1])
    /\ Len(batch.background) >= 1
    /\ batch.background[1] = [index |-> 1, returncode |-> 1, reaper |-> "done"]
    /\ batch.pc = "returned"

(***************************************************************************)
(* Properties of the approval set.                                         *)
(***************************************************************************)
\* the fingerprint of the operation of caller c
FingerprintOf(c) == Fingerprint(call[c].op.kind, call[c].relative, call[c].op.diff)

\* the gate grants the operation of caller c in this step
GrantedNow(c) == ~call[c].granted /\ call'[c].granted

\* C28: the approval set only grows; it changes only in a step in which the
\* gate grants an operation, and then by the insertion of the fingerprint of
\* that operation; every grant leaves its fingerprint in the set, and the
\* grant of a fingerprint that is already in the set leaves the set as it is
C28_ApprovalSetOnlyGrows ==
    [][/\ approved \subseteq approved'
       /\ approved' # approved =>
             \E c \in Callers :
                 GrantedNow(c) /\ approved' = approved \cup {FingerprintOf(c)}
       /\ \A c \in Callers :
             GrantedNow(c) =>
                 /\ FingerprintOf(c) \in approved'
                 /\ FingerprintOf(c) \in approved => approved' = approved]_vars

\* two operations have been granted one after the other and both fingerprints
\* are in the set
C28_Witness ==
    /\ Cardinality(approved) = 2
    /\ Cardinality(grantedTriples) = 2
    /\ \E c \in Callers :
           /\ call[c].granted
           /\ call[c].pre.approved # {}
           /\ call[c].pre.approved \subseteq approved
           /\ FingerprintOf(c) \notin call[c].pre.approved

(***************************************************************************)
(* Properties of the auto-approve setting.                                 *)
(***************************************************************************)
\* auto-approve has been enabled through APPLY_PATCH_AUTO_APPROVE
ExplicitlyEnabled == settings.APPLY_PATCH_AUTO_APPROVE = "1"

\* the call of c has passed the place of the gate with an operation whose
\* fingerprint was not remembered when the call started
PastGateUnremembered(c) ==
    /\ call[c].pc \in {"resolve", "apply", "write"}
    /\ FingerprintOf(c) \notin call[c].pre.approved

\* C29: auto-approve is in effect only when it has been explicitly enabled;
\* otherwise no operation whose fingerprint is not remembered gets past the
\* gate without the external decision
C29_AutoApproveOffByDefault ==
    /\ auto_approve => ExplicitlyEnabled
    /\ ~ExplicitlyEnabled =>
          \A c \in Callers : PastGateUnremembered(c) => call[c].prompted

(***************************************************************************)
(* Properties of a path that leaves the workspace.                         *)
(***************************************************************************)
\* the call of c was made with a path that canonicalises outside the root,
\* and its first step, _relative_path, has been taken
EscapingCall(c) ==
    /\ call[c].pc \notin {"idle", "relative_path"}
    /\ ~InWorkspace(ResolvedAtCall(c))

\* C30: a call whose path leaves the workspace has failed with the "outside
\* workspace" error without reaching the approval gate: nothing was asked,
\* nothing was granted, and the approval set and the filesystem are what
\* they were when the call started.
C30_EscapingFailsBeforeGate ==
    \A c \in Callers : EscapingCall(c) =>
        /\ call[c].pc = "done"
        /\ call[c].result = OutsideWorkspace
        /\ ~call[c].prompted
        /\ ~call[c].granted
        /\ approved = call[c].pre.approved
        /\ fs = call[c].pre.fs

\* after an operation was granted at the prompt and remembered, the gated
\* editor refused a path that leaves the workspace
C30_Witness ==
    \E c \in Callers :
        /\ EscapingCall(c)
        /\ call[c].result = OutsideWorkspace
        /\ editor = "coding_agent"
        /\ ~auto_approve
        /\ approved # {}

(***************************************************************************)
(* Properties of a wakeup of the race that finds several tasks complete.   *)
(***************************************************************************)
\* asyncio.wait returned more than one task of the race in done
SeveralDone == Cardinality(mon.done) >= 2

\* C31: when the wakeup of the race finds several tasks complete, the exit
\* of the process goes before both timers (no flag is set, nothing is
\* killed, and the result returned carries the exit code and no timeout),
\* and the duration timer goes before the inactivity timer (the duration
\* flag is set, the inactivity flag is not, and the reason returned is
\* "duration", or "duration_background" when the process is detached).
C31_PrecedenceInOneWakeup ==
    SeveralDone =>
        /\ "wait_task" \in mon.done =>
              /\ ~mon.timed_out
              /\ ~mon.inactivity_triggered
              /\ ~mon.background_detached
              /\ proc.kills = 0
              /\ mon.pc = "returned" =>
                    /\ ~mon.result.timed_out
                    /\ mon.result.timeout_reason = "none"
                    /\ mon.result.exit_code = proc.status
                    /\ mon.result.exit_code \in {0, 1}
        /\ "wait_task" \notin mon.done =>
              /\ mon.timed_out
              /\ ~mon.inactivity_triggered
              /\ mon.background_detached = config.background_on_timeout
              /\ mon.pc = "returned" =>
                    /\ mon.result.timed_out
                    /\ mon.result.timeout_reason =
                          IF config.background_on_timeout
                          THEN "duration_background" ELSE "duration"

\* both timers, and not the exit, had completed when the race was decided:
\* the process was killed and the result gives the duration as the reason
C31_Witness ==
    /\ mon.pc = "returned"
    /\ mon.done = {"timeout_task", "inactivity_task"}
    /\ proc.kills = 1
    /\ mon.result.timeout_reason = "duration"

(***************************************************************************)
(* Properties of a diff that does not apply.                               *)
(***************************************************************************)
\* the call of c has ended because apply_diff raised
DiffFailed(c) ==
    /\ call[c].pc = "done"
    /\ call[c].op.kind \in {"create_file", "update_file"}
    /\ call[c].result = PatchFormatError

\* C32: when apply_diff raises in create_file or update_file, the filesystem
\* is what it was when the call started (no file and no directory has been
\* created or changed), and the approval set has gained nothing but the
\* fingerprint that was granted.
C32_FailedDiffLeavesWorkspace ==
    \A c \in Callers : DiffFailed(c) =>
        /\ fs = call[c].pre.fs
        /\ approved = call[c].pre.approved \cup
              (IF call[c].granted THEN {FingerprintOf(c)} ELSE {})

=============================================================================
